---- MODULE Spec2Model ----
(***************************************************************************)
(* A model of the format-inference batch conversion pipeline of            *)
(* a-test-dummy/tools/convert_me.py: the helpers (get_file_size,           *)
(* log_success, log_error), the five converters, infer_and_run_conversion  *)
(* and the __main__ batch loop with its report.                            *)
(*                                                                         *)
(* Strings that the code takes apart (paths, names, suffixes) are          *)
(* sequences of one-character strings; strings it only passes around are   *)
(* TLA+ strings.                                                           *)
(***************************************************************************)
EXTENDS Integers, Sequences, FiniteSets, TLC

(***************************************************************************)
(* Bounds of the model.                                                    *)
(***************************************************************************)
\* longest task list drawn from TaskPool (the __main__ list is added as is)
MaxTasks == 2
\* most data rows of a drawn table
MaxRows == 2
\* converters running at the same time, where the claim is about that
MaxWorkers == 2

(***************************************************************************)
(* Strings.  The state holds strings as TLA+ strings; what the code does   *)
(* to a string (lower, upper, rfind, `in`, slicing) is computed on the     *)
(* sequence of its characters.  CharsOf spells out every string the runs   *)
(* of the model meet; Str is the inverse of Chars.                         *)
(***************************************************************************)
CharsOf ==
    ("" :> <<>>) @@
    ("." :> <<".">>) @@
    ("data" :> <<"d","a","t","a">>) @@
    ("missing" :> <<"m","i","s","s","i","n","g">>) @@
    ("data/sample.csv" :> <<"d","a","t","a","/","s","a","m","p","l","e",".","c","s","v">>) @@
    ("sample.csv" :> <<"s","a","m","p","l","e",".","c","s","v">>) @@
    (".csv" :> <<".","c","s","v">>) @@
    (".CSV" :> <<".","C","S","V">>) @@
    ("data/converted/smart_sample.xlsx" :> <<"d","a","t","a","/","c","o","n","v","e","r","t","e","d","/","s","m","a","r","t","_","s","a","m","p","l","e",".","x","l","s","x">>) @@
    ("smart_sample.xlsx" :> <<"s","m","a","r","t","_","s","a","m","p","l","e",".","x","l","s","x">>) @@
    ("data/converted" :> <<"d","a","t","a","/","c","o","n","v","e","r","t","e","d">>) @@
    (".xlsx" :> <<".","x","l","s","x">>) @@
    (".XLSX" :> <<".","X","L","S","X">>) @@
    ("data/converted/smart_sample.parquet" :> <<"d","a","t","a","/","c","o","n","v","e","r","t","e","d","/","s","m","a","r","t","_","s","a","m","p","l","e",".","p","a","r","q","u","e","t">>) @@
    ("smart_sample.parquet" :> <<"s","m","a","r","t","_","s","a","m","p","l","e",".","p","a","r","q","u","e","t">>) @@
    (".parquet" :> <<".","p","a","r","q","u","e","t">>) @@
    (".PARQUET" :> <<".","P","A","R","Q","U","E","T">>) @@
    ("data/converted/roundtrip.csv" :> <<"d","a","t","a","/","c","o","n","v","e","r","t","e","d","/","r","o","u","n","d","t","r","i","p",".","c","s","v">>) @@
    ("roundtrip.csv" :> <<"r","o","u","n","d","t","r","i","p",".","c","s","v">>) @@
    ("data/missing.numbers" :> <<"d","a","t","a","/","m","i","s","s","i","n","g",".","n","u","m","b","e","r","s">>) @@
    ("missing.numbers" :> <<"m","i","s","s","i","n","g",".","n","u","m","b","e","r","s">>) @@
    (".numbers" :> <<".","n","u","m","b","e","r","s">>) @@
    (".NUMBERS" :> <<".","N","U","M","B","E","R","S">>) @@
    ("data/converted/fail_test.csv" :> <<"d","a","t","a","/","c","o","n","v","e","r","t","e","d","/","f","a","i","l","_","t","e","s","t",".","c","s","v">>) @@
    ("fail_test.csv" :> <<"f","a","i","l","_","t","e","s","t",".","c","s","v">>) @@
    ("data/converted/unknown_format.xyz" :> <<"d","a","t","a","/","c","o","n","v","e","r","t","e","d","/","u","n","k","n","o","w","n","_","f","o","r","m","a","t",".","x","y","z">>) @@
    ("unknown_format.xyz" :> <<"u","n","k","n","o","w","n","_","f","o","r","m","a","t",".","x","y","z">>) @@
    (".xyz" :> <<".","x","y","z">>) @@
    (".XYZ" :> <<".","X","Y","Z">>) @@
    ("data/DATA.CSV" :> <<"d","a","t","a","/","D","A","T","A",".","C","S","V">>) @@
    ("DATA.CSV" :> <<"D","A","T","A",".","C","S","V">>) @@
    ("data/out.XLSX" :> <<"d","a","t","a","/","o","u","t",".","X","L","S","X">>) @@
    ("out.XLSX" :> <<"o","u","t",".","X","L","S","X">>) @@
    ("data/notes.txt" :> <<"d","a","t","a","/","n","o","t","e","s",".","t","x","t">>) @@
    ("notes.txt" :> <<"n","o","t","e","s",".","t","x","t">>) @@
    (".txt" :> <<".","t","x","t">>) @@
    (".TXT" :> <<".","T","X","T">>) @@
    ("data/notes.yaml" :> <<"d","a","t","a","/","n","o","t","e","s",".","y","a","m","l">>) @@
    ("notes.yaml" :> <<"n","o","t","e","s",".","y","a","m","l">>) @@
    (".yaml" :> <<".","y","a","m","l">>) @@
    (".YAML" :> <<".","Y","A","M","L">>) @@
    ("data/converted/chained.parquet" :> <<"d","a","t","a","/","c","o","n","v","e","r","t","e","d","/","c","h","a","i","n","e","d",".","p","a","r","q","u","e","t">>) @@
    ("chained.parquet" :> <<"c","h","a","i","n","e","d",".","p","a","r","q","u","e","t">>) @@
    ("data/missing.csv" :> <<"d","a","t","a","/","m","i","s","s","i","n","g",".","c","s","v">>) @@
    ("missing.csv" :> <<"m","i","s","s","i","n","g",".","c","s","v">>) @@
    ("data/copy.csv" :> <<"d","a","t","a","/","c","o","p","y",".","c","s","v">>) @@
    ("copy.csv" :> <<"c","o","p","y",".","c","s","v">>) @@
    ("data/converted/back.csv" :> <<"d","a","t","a","/","c","o","n","v","e","r","t","e","d","/","b","a","c","k",".","c","s","v">>) @@
    ("back.csv" :> <<"b","a","c","k",".","c","s","v">>) @@
    ("data/book.numbers" :> <<"d","a","t","a","/","b","o","o","k",".","n","u","m","b","e","r","s">>) @@
    ("book.numbers" :> <<"b","o","o","k",".","n","u","m","b","e","r","s">>) @@
    ("data/book.csv" :> <<"d","a","t","a","/","b","o","o","k",".","c","s","v">>) @@
    ("book.csv" :> <<"b","o","o","k",".","c","s","v">>) @@
    ("data/absent.csv" :> <<"d","a","t","a","/","a","b","s","e","n","t",".","c","s","v">>) @@
    ("absent.csv" :> <<"a","b","s","e","n","t",".","c","s","v">>) @@
    ("data/converted/absent.xlsx" :> <<"d","a","t","a","/","c","o","n","v","e","r","t","e","d","/","a","b","s","e","n","t",".","x","l","s","x">>) @@
    ("absent.xlsx" :> <<"a","b","s","e","n","t",".","x","l","s","x">>) @@
    ("data/book.xlsx" :> <<"d","a","t","a","/","b","o","o","k",".","x","l","s","x">>) @@
    ("book.xlsx" :> <<"b","o","o","k",".","x","l","s","x">>) @@
    ("data/converted/book.csv" :> <<"d","a","t","a","/","c","o","n","v","e","r","t","e","d","/","b","o","o","k",".","c","s","v">>) @@
    ("data/converted/book.xlsx" :> <<"d","a","t","a","/","c","o","n","v","e","r","t","e","d","/","b","o","o","k",".","x","l","s","x">>) @@
    ("data/cols.parquet" :> <<"d","a","t","a","/","c","o","l","s",".","p","a","r","q","u","e","t">>) @@
    ("cols.parquet" :> <<"c","o","l","s",".","p","a","r","q","u","e","t">>) @@
    ("data/converted/cols.csv" :> <<"d","a","t","a","/","c","o","n","v","e","r","t","e","d","/","c","o","l","s",".","c","s","v">>) @@
    ("cols.csv" :> <<"c","o","l","s",".","c","s","v">>) @@
    ("data/converted/cols.parquet" :> <<"d","a","t","a","/","c","o","n","v","e","r","t","e","d","/","c","o","l","s",".","p","a","r","q","u","e","t">>) @@
    ("data/converted/missing.xlsx" :> <<"d","a","t","a","/","c","o","n","v","e","r","t","e","d","/","m","i","s","s","i","n","g",".","x","l","s","x">>) @@
    ("missing.xlsx" :> <<"m","i","s","s","i","n","g",".","x","l","s","x">>) @@
    ("data/out/nested/sample.xlsx" :> <<"d","a","t","a","/","o","u","t","/","n","e","s","t","e","d","/","s","a","m","p","l","e",".","x","l","s","x">>) @@
    ("data/out/nested" :> <<"d","a","t","a","/","o","u","t","/","n","e","s","t","e","d">>) @@
    ("data/out" :> <<"d","a","t","a","/","o","u","t">>) @@
    ("sample.xlsx" :> <<"s","a","m","p","l","e",".","x","l","s","x">>) @@
    ("converted" :> <<"c","o","n","v","e","r","t","e","d">>)

KnownStrings == DOMAIN CharsOf

Chars(s) == CharsOf[s]

StrOf ==
    [cs \in {CharsOf[s] : s \in KnownStrings} |-> CHOOSE s \in KnownStrings : CharsOf[s] = cs]

Str(cs) == StrOf[cs]

Str_upper == <<"A","B","C","D","E","F","G","H","I","J","K","L","M","N","O","P","Q","R","S","T","U","V","W","X","Y","Z">>
Str_lower == <<"a","b","c","d","e","f","g","h","i","j","k","l","m","n","o","p","q","r","s","t","u","v","w","x","y","z">>

\* str.lower() on one character
LowerChar(c) ==
    IF \E k \in DOMAIN Str_upper : Str_upper[k] = c
    THEN Str_lower[CHOOSE k \in DOMAIN Str_upper : Str_upper[k] = c]
    ELSE c

\* str.upper() on one character
UpperChar(c) ==
    IF \E k \in DOMAIN Str_lower : Str_lower[k] = c
    THEN Str_upper[CHOOSE k \in DOMAIN Str_lower : Str_lower[k] = c]
    ELSE c

\* str.lower()
lower(s) == Str([k \in DOMAIN Chars(s) |-> LowerChar(Chars(s)[k])])

\* str.upper()
upper(s) == Str([k \in DOMAIN Chars(s) |-> UpperChar(Chars(s)[k])])

\* str.rfind(c) on the characters cs, 1-based; 0 when c does not occur
rfind(cs, c) ==
    IF \E k \in DOMAIN cs : cs[k] = c
    THEN CHOOSE k \in DOMAIN cs : cs[k] = c /\ \A m \in DOMAIN cs : m > k => cs[m] # c
    ELSE 0

\* `sub in s`
Contains(s, sub) ==
    \E k \in 0..(Len(Chars(s)) - Len(Chars(sub))) :
        SubSeq(Chars(s), k + 1, k + Len(Chars(sub))) = Chars(sub)

(***************************************************************************)
(* pathlib.Path, relative to the working directory: a path is str(path).   *)
(***************************************************************************)
Cwd == "."

\* the `/` operator of Path
Join(p, q) == IF p = Cwd THEN q ELSE p \o "/" \o q

\* Path.name: the final path component
PathName(p) == Str(SubSeq(Chars(p), rfind(Chars(p), "/") + 1, Len(Chars(p))))

\* Path.parent
PathParent(p) ==
    IF rfind(Chars(p), "/") = 0 THEN Cwd
    ELSE Str(SubSeq(Chars(p), 1, rfind(Chars(p), "/") - 1))

\* Path.suffix: the final component's last dot and what follows it, unless
\* that dot is the name's first or last character
PathSuffix(p) ==
    LET name == Chars(PathName(p))
        k    == rfind(name, ".")
    IN  IF 1 < k /\ k < Len(name) THEN Str(SubSeq(name, k, Len(name))) ELSE ""

(***************************************************************************)
(* Exceptions.  An exception is its class and str(e); NoExc is "nothing    *)
(* was raised".                                                            *)
(***************************************************************************)
NoExc == [type |-> "none", msg |-> ""]

Exc(t, m) == [type |-> t, msg |-> m]

\* the base class of each exception class the modelled calls raise
ExcBase(t) ==
    CASE t = "FileNotFoundError"  -> "OSError"
      [] t = "FileExistsError"    -> "OSError"
      [] t = "NotADirectoryError" -> "OSError"
      [] t = "PermissionError"    -> "OSError"
      [] t = "OSError"            -> "Exception"
      [] t = "EmptyDataError"     -> "ValueError"
      [] t = "ParserError"        -> "ValueError"
      [] t = "BadZipFile"         -> "Exception"
      [] t = "ArrowInvalid"       -> "ValueError"
      [] t = "IsADirectoryError"  -> "OSError"
      [] t = "FileError"          -> "NumbersError"
      [] t = "FileFormatError"    -> "NumbersError"
      [] t = "NumbersError"       -> "Exception"
      [] t = "ValueError"         -> "Exception"
      [] t = "Exception"          -> "BaseException"
      [] OTHER                    -> "object"

RECURSIVE IsInstance(_, _)
IsInstance(t, cls) ==
    IF t = cls THEN TRUE
    ELSE IF t \in {"object", "none"} THEN FALSE
    ELSE IsInstance(ExcBase(t), cls)

(***************************************************************************)
(* The filesystem: the directories that exist and the content of each      *)
(* file that exists.                                                       *)
(***************************************************************************)
IsDir(fsys, p) == p \in fsys.dirs

IsFile(fsys, p) == p \in DOMAIN fsys.files

\* Path.exists()
PathExists(fsys, p) == IsDir(fsys, p) \/ IsFile(fsys, p)

\* mutant of Mkdir: parents=False, a missing parent is an error
Mkdir_NoParents(fsys, p, perm) ==
    IF IsDir(fsys, p) THEN [fs |-> fsys, exc |-> NoExc]
    ELSE IF IsFile(fsys, p)
    THEN [fs |-> fsys, exc |-> Exc("FileExistsError", "[Errno 17] File exists")]
    ELSE IF IsFile(fsys, PathParent(p))
    THEN [fs |-> fsys, exc |-> Exc("NotADirectoryError", "[Errno 20] Not a directory")]
    ELSE IF ~IsDir(fsys, PathParent(p))
    THEN [fs |-> fsys, exc |-> Exc("FileNotFoundError", "[Errno 2] No such file or directory")]
    ELSE IF perm
    THEN [fs |-> fsys, exc |-> Exc("PermissionError", "[Errno 13] Permission denied")]
    ELSE [fs |-> [fsys EXCEPT !.dirs = @ \cup {p}], exc |-> NoExc]

\* mutant of Mkdir: exist_ok=False, an existing directory is an error
Mkdir_NotExistOk(fsys, p, perm) ==
    IF PathExists(fsys, p)
    THEN [fs |-> fsys, exc |-> Exc("FileExistsError", "[Errno 17] File exists")]
    ELSE IF perm
    THEN [fs |-> fsys, exc |-> Exc("PermissionError", "[Errno 13] Permission denied")]
    ELSE [fs |-> [fsys EXCEPT !.dirs = @ \cup {p, PathParent(p)}], exc |-> NoExc]

\* Path.mkdir(parents=True, exist_ok=True): os.mkdir, creating the parent
\* first when it is missing; an existing directory is accepted, an existing
\* file is not.  perm is the environment refusing the creation.
RECURSIVE Mkdir(_, _, _)
Mkdir(fsys, p, perm) ==
    IF IsDir(fsys, p) THEN [fs |-> fsys, exc |-> NoExc]
    ELSE IF IsFile(fsys, p)
    THEN [fs |-> fsys, exc |-> Exc("FileExistsError", "[Errno 17] File exists")]
    ELSE IF IsFile(fsys, PathParent(p))
    THEN [fs |-> fsys, exc |-> Exc("NotADirectoryError", "[Errno 20] Not a directory")]
    ELSE LET up == IF IsDir(fsys, PathParent(p))
                   THEN [fs |-> fsys, exc |-> NoExc]
                   ELSE Mkdir(fsys, PathParent(p), perm)
         IN  IF up.exc # NoExc THEN up
             ELSE IF perm
             THEN [fs |-> up.fs, exc |-> Exc("PermissionError", "[Errno 13] Permission denied")]
             ELSE [fs |-> [up.fs EXCEPT !.dirs = @ \cup {p}], exc |-> NoExc]

(***************************************************************************)
(* Tables.  A cell value of a DataFrame is an integer, a float (the model  *)
(* holds the integral ones, n.0), NaN/None or a string.  A cell of a CSV   *)
(* file is its text; a cell of a workbook is a number, a string or empty.  *)
(***************************************************************************)
V_int(n) == [t |-> "int", n |-> n, s |-> ""]

V_float(n) == [t |-> "float", n |-> n, s |-> ""]

V_nan == [t |-> "nan", n |-> 0, s |-> ""]

V_str(x) == [t |-> "str", n |-> 0, s |-> x]

\* a numeric workbook cell: a workbook stores one kind of number
V_num(n) == [t |-> "num", n |-> n, s |-> ""]

\* an empty workbook cell
V_empty == [t |-> "empty", n |-> 0, s |-> ""]

\* the CSV texts that parse as an integer, and as a float
IntTokens == {"1", "2", "3", "4", "7", "007"}

FloatTokens == {"1.0", "2.0", "3.0", "4.0", "7.0"}

\* pandas' default NA markers (those the model draws)
NaTokens == {"", "NA"}

\* the number a numeric text denotes
NumberOf(tok) ==
    CASE tok \in {"1", "1.0"} -> 1
      [] tok \in {"2", "2.0"} -> 2
      [] tok \in {"3", "3.0"} -> 3
      [] tok \in {"4", "4.0"} -> 4
      [] tok \in {"7", "007", "7.0"} -> 7
      [] OTHER -> 0

Column(rows, k) == [r \in DOMAIN rows |-> rows[r][k]]

\* the DataFrame of (columns, dtypes, rows)
Frame(cols, types, rows) == [columns |-> cols, dtypes |-> types, data |-> rows]

\* a file's content: what kind of data it holds, the table, and st_size as
\* base-1024 digits, least significant first
File(kind, header, types, rows, size) ==
    [kind |-> kind, header |-> header, dtypes |-> types, rows |-> rows, size |-> size]

\* pandas' renaming of the header on load: an empty name becomes
\* "Unnamed: <position>", a repeated name gets ".<count of earlier ones>"
MangleColumns(header) ==
    LET named == [k \in DOMAIN header |->
                    IF header[k] = "" THEN "Unnamed: " \o ToString(k - 1) ELSE header[k]]
        seen(k) == Cardinality({j \in 1..(k - 1) : named[j] = named[k]})
    IN  [k \in DOMAIN named |->
            IF seen(k) = 0 THEN named[k] ELSE named[k] \o "." \o ToString(seen(k))]

\* the dtype pandas infers for a column of CSV texts
CsvDtype(toks) ==
    IF Len(toks) = 0 THEN "object"
    ELSE IF \A k \in DOMAIN toks : toks[k] \in IntTokens THEN "int64"
    ELSE IF \A k \in DOMAIN toks : toks[k] \in IntTokens \cup FloatTokens \cup NaTokens
    THEN "float64"
    ELSE "object"

CsvValue(tok, dtype) ==
    IF tok \in NaTokens THEN V_nan
    ELSE IF dtype = "int64" THEN V_int(NumberOf(tok))
    ELSE IF dtype = "float64" THEN V_float(NumberOf(tok))
    ELSE V_str(tok)

\* pd.read_csv(input_file)
read_csv(fsys, p) ==
    IF ~IsFile(fsys, p)
    THEN [exc |-> Exc("FileNotFoundError", "[Errno 2] No such file or directory"), df |-> Frame(<<>>, <<>>, <<>>)]
    ELSE LET f == fsys.files[p] IN
         IF f.kind # "csv"
         THEN [exc |-> Exc("ParserError", "Error tokenizing data"), df |-> Frame(<<>>, <<>>, <<>>)]
         ELSE IF f.header = <<>>
         THEN [exc |-> Exc("EmptyDataError", "No columns to parse from file"), df |-> Frame(<<>>, <<>>, <<>>)]
         ELSE LET types == [k \in DOMAIN f.header |-> CsvDtype(Column(f.rows, k))]
              IN  [exc |-> NoExc,
                   df  |-> Frame(MangleColumns(f.header), types,
                                 [r \in DOMAIN f.rows |->
                                    [k \in DOMAIN f.header |-> CsvValue(f.rows[r][k], types[k])]])]

\* the text to_csv writes for a value
CsvText(v) ==
    CASE v.t = "int"   -> ToString(v.n)
      [] v.t = "float" -> ToString(v.n) \o ".0"
      [] v.t = "str"   -> v.s
      [] OTHER         -> ""

\* mutant of to_csv: index=True, the row index written as a first column
to_csv_WithIndex(df, size) ==
    File("csv", <<"">> \o df.columns, <<>>,
         [r \in DOMAIN df.data |->
            <<ToString(r - 1)>> \o [k \in DOMAIN df.columns |-> CsvText(df.data[r][k])]],
         size)

\* df.to_csv(output_file, index=False): the column names, then one line per
\* row; the row index is not written
to_csv(df, size) ==
    File("csv", df.columns, <<>>,
         [r \in DOMAIN df.data |-> [k \in DOMAIN df.columns |-> CsvText(df.data[r][k])]],
         size)

\* the workbook cell to_excel writes for a value
XlsxCell(v) ==
    CASE v.t \in {"int", "float"} -> V_num(v.n)
      [] v.t = "str"              -> V_str(v.s)
      [] OTHER                    -> V_empty

\* df.to_excel(output_file, index=False): a header row and the data rows
\* on the first sheet
to_excel(df, size) ==
    File("xlsx", [k \in DOMAIN df.columns |-> V_str(df.columns[k])], <<>>,
         [r \in DOMAIN df.data |-> [k \in DOMAIN df.columns |-> XlsxCell(df.data[r][k])]],
         size)

\* a sheet's rows without its trailing empty rows, which a workbook does
\* not record
RECURSIVE TrimRows(_)
TrimRows(rows) ==
    IF rows = <<>> THEN rows
    ELSE IF \A k \in DOMAIN rows[Len(rows)] : rows[Len(rows)][k] = V_empty
    THEN TrimRows(SubSeq(rows, 1, Len(rows) - 1))
    ELSE rows

\* the dtype pandas infers for a column of workbook cells
XlsxDtype(cells) ==
    IF Len(cells) = 0 THEN "object"
    ELSE IF \A k \in DOMAIN cells : cells[k].t = "num" THEN "int64"
    ELSE IF \A k \in DOMAIN cells : cells[k].t \in {"num", "empty"} THEN "float64"
    ELSE "object"

XlsxValue(c, dtype) ==
    IF c.t = "empty" THEN V_nan
    ELSE IF c.t = "str" THEN V_str(c.s)
    ELSE IF dtype = "float64" THEN V_float(c.n)
    ELSE V_int(c.n)

\* the column name read from a header cell
XlsxName(c) ==
    CASE c.t = "str" -> c.s
      [] c.t = "num" -> ToString(c.n)
      [] OTHER       -> ""

\* pd.read_excel(input_file): the first sheet, its first row the header
read_excel(fsys, p) ==
    IF ~IsFile(fsys, p)
    THEN [exc |-> Exc("FileNotFoundError", "[Errno 2] No such file or directory"), df |-> Frame(<<>>, <<>>, <<>>)]
    ELSE LET f == fsys.files[p] IN
         IF f.kind # "xlsx"
         THEN [exc |-> Exc("BadZipFile", "File is not a zip file"), df |-> Frame(<<>>, <<>>, <<>>)]
         ELSE LET rows  == TrimRows(f.rows)
                  types == [k \in DOMAIN f.header |-> XlsxDtype(Column(rows, k))]
              IN  [exc |-> NoExc,
                   df  |-> Frame(MangleColumns([k \in DOMAIN f.header |-> XlsxName(f.header[k])]),
                                 types,
                                 [r \in DOMAIN rows |->
                                    [k \in DOMAIN f.header |-> XlsxValue(rows[r][k], types[k])]])]

\* mutant of to_parquet: the row index is stored as a column of its own
to_parquet_WithIndexColumn(df, size) ==
    [exc |-> NoExc,
     file |-> File("parquet", <<"__index_level_0__">> \o df.columns, <<"int64">> \o df.dtypes,
                   [r \in DOMAIN df.data |-> <<V_int(r - 1)>> \o df.data[r]], size)]

\* df.to_parquet(output_file, engine="pyarrow", compression="snappy"): the
\* columns with their types; a RangeIndex is kept as metadata, not as a
\* column.  A column mixing strings and numbers has no Arrow type.
to_parquet(df, size) ==
    IF \E k \in DOMAIN df.columns :
          /\ \E r \in DOMAIN df.data : df.data[r][k].t = "str"
          /\ \E r \in DOMAIN df.data : df.data[r][k].t \in {"int", "float"}
    THEN [exc |-> Exc("ArrowInvalid", "Could not convert value with type str"),
          file |-> File("corrupt", <<>>, <<>>, <<>>, size)]
    ELSE [exc |-> NoExc, file |-> File("parquet", df.columns, df.dtypes, df.data, size)]

\* pd.read_parquet(input_file, engine="pyarrow")
read_parquet(fsys, p) ==
    IF ~IsFile(fsys, p)
    THEN [exc |-> Exc("FileNotFoundError", "[Errno 2] No such file or directory"), df |-> Frame(<<>>, <<>>, <<>>)]
    ELSE LET f == fsys.files[p] IN
         IF f.kind # "parquet"
         THEN [exc |-> Exc("ArrowInvalid", "Parquet magic bytes not found in footer"), df |-> Frame(<<>>, <<>>, <<>>)]
         ELSE [exc |-> NoExc, df |-> Frame(f.header, f.dtypes, f.rows)]

\* the header text of a value of a Numbers table's first row
NumbersName(v) ==
    CASE v.t = "str"   -> v.s
      [] v.t = "float" -> ToString(v.n) \o ".0"
      [] v.t = "int"   -> ToString(v.n)
      [] OTHER         -> ""

\* Document(str(input_file)).sheets[0].tables[0].rows(values_only=True):
\* the rows of the first table of the first sheet, the header row included
numbers_rows(fsys, p) ==
    IF ~IsFile(fsys, p)
    THEN [exc |-> Exc("FileError", "no such file or directory"), data |-> <<>>]
    ELSE IF fsys.files[p].kind # "numbers"
    THEN [exc |-> Exc("FileFormatError", "invalid Numbers document"), data |-> <<>>]
    ELSE [exc |-> NoExc, data |-> fsys.files[p].rows]

\* mutant of DataFrameOf: pd.DataFrame(data, columns=headers), the header
\* row kept among the data rows
DataFrameOf_KeepsHeaderRow(data) ==
    LET headers == data[1]
    IN  Frame([k \in DOMAIN headers |-> NumbersName(headers[k])],
              [k \in DOMAIN headers |-> "object"],
              data)

\* pd.DataFrame(data[1:], columns=headers): the names are taken as given
DataFrameOf(data) ==
    LET headers == data[1]
        body    == SubSeq(data, 2, Len(data))
        dtype(k) == IF Len(body) > 0 /\ \A r \in DOMAIN body : body[r][k].t = "float"
                    THEN "float64" ELSE "object"
    IN  Frame([k \in DOMAIN headers |-> NumbersName(headers[k])],
              [k \in DOMAIN headers |-> dtype(k)],
              body)

(***************************************************************************)
(* Formatting numbers.                                                     *)
(***************************************************************************)
\* The value of `size` in get_file_size: st_size divided `shift` times by
\* 1024.  st_size is held as base-1024 digits, least significant first, so
\* that terabyte sizes fit; the divisions are exact, as they are in binary
\* floating point below 2^53.
SizeValue(digits, shift) == [digits |-> digits, shift |-> shift]

\* mutant of LessThan1024: size <= 1024
LessThan1024_OrEqual(v) ==
    \/ \A j \in (v.shift + 2)..Len(v.digits) : v.digits[j] = 0
    \/ /\ v.shift + 2 <= Len(v.digits)
       /\ v.digits[v.shift + 2] = 1
       /\ \A j \in 1..Len(v.digits) : j # v.shift + 2 => v.digits[j] = 0

\* size < 1024: no digit above the units digit of the shifted value
LessThan1024(v) == \A j \in (v.shift + 2)..Len(v.digits) : v.digits[j] = 0

\* size / 1024
DivideBy1024(v) == SizeValue(v.digits, v.shift + 1)

\* the integer part of the value
RECURSIVE IntPartFrom(_, _)
IntPartFrom(digits, j) ==
    IF j > Len(digits) THEN 0 ELSE digits[j] + 1024 * IntPartFrom(digits, j + 1)

IntPart(v) == IntPartFrom(v.digits, v.shift + 1)

\* ten times the fractional part: <<its integer part, the base-1024 digits
\* of what remains, least significant first>>
RECURSIVE TimesTen(_, _, _)
TimesTen(frac, j, carry) ==
    IF j > Len(frac) THEN <<carry, <<>>>>
    ELSE LET t    == 10 * frac[j] + carry
             rest == TimesTen(frac, j + 1, t \div 1024)
         IN  <<rest[1], <<t % 1024>> \o rest[2]>>

\* f"{size:.1f}": the value rounded to one decimal place, ties to even
FormatOneDecimal(v) ==
    LET tt     == TimesTen(SubSeq(v.digits, 1, v.shift), 1, 0)
        tenths == tt[1]
        rem    == tt[2]
        top    == IF rem = <<>> THEN 0 ELSE rem[Len(rem)]
        low    == \E j \in 1..(Len(rem) - 1) : rem[j] > 0
        up     == top > 512 \/ (top = 512 /\ (low \/ tenths % 2 = 1))
        total  == tenths + (IF up THEN 1 ELSE 0)
    IN  ToString(IntPart(v) + total \div 10) \o "." \o ToString(total % 10)

Units == <<"B", "KB", "MB", "GB">>

\* the loop of get_file_size from unit k on
RECURSIVE SizeLoop(_, _)
SizeLoop(v, k) ==
    IF k > Len(Units) THEN FormatOneDecimal(v) \o " TB"
    ELSE IF LessThan1024(v) THEN FormatOneDecimal(v) \o " " \o Units[k]
    ELSE SizeLoop(DivideBy1024(v), k + 1)

\* the label of a file of the given st_size
SizeLabel(digits) == SizeLoop(SizeValue(digits, 0), 1)

\* get_file_size(path)
get_file_size(fsys, path) ==
    IF ~PathExists(fsys, path) THEN "0 B"
    ELSE IF IsFile(fsys, path) THEN SizeLabel(fsys.files[path].size)
    ELSE SizeLabel(<<0, 4, 0, 0, 0>>)

\* f"{duration:.2f}s" of a duration given in milliseconds
DurationLabel(ms) ==
    LET cs == (ms + 5) \div 10
    IN  ToString(cs \div 100) \o "." \o ToString((cs % 100) \div 10) \o ToString(cs % 10) \o "s"

(***************************************************************************)
(* The world a call acts on: the filesystem, what was printed on the       *)
(* console, the filesystem operations made (kept for the frame claims) and *)
(* the exception in flight, NoExc when there is none.                      *)
(*                                                                         *)
(* env is what the environment decides for one converter call: an I/O      *)
(* fault it injects (or "none"), the st_size of a file written and the     *)
(* wall time the call takes, in milliseconds.                              *)
(***************************************************************************)
World(fsys, con) ==
    [fs |-> fsys, console |-> con, ops |-> <<>>, exc |-> [type |-> "none", msg |-> ""],
     ran |-> "None", err |-> [stage |-> "", type |-> "none", msg |-> ""]]

Op(op, path) == [op |-> op, path |-> path]

Line(kind, input, output, error) ==
    [kind |-> kind, input |-> input, output |-> output, error |-> error]

\* what a call that raised hands back
NoResult ==
    [status |-> "", input |-> "", output |-> "", type |-> "", size |-> "", time |-> ""]

Returned(w, ret) == [w |-> w, ret |-> ret]

\* the world after an operation on path that raised exc (NoExc: it did
\* not); err keeps the stage, the class and str(e) of what was raised
After(w, op, path, stage, exc) ==
    [w EXCEPT !.ops = Append(@, Op(op, path)),
              !.exc = exc,
              !.err = IF exc = NoExc THEN @
                     ELSE [stage |-> stage, type |-> exc.type, msg |-> exc.msg]]

\* the converter entered
Enter(w, name) == [w EXCEPT !.ran = name]

\* mutant of log_success: the size label is that of the input file
log_success_SizeOfInput(w, input_file, output_file, env) ==
    Returned(
        [w EXCEPT !.ops = @ \o (IF PathExists(w.fs, output_file)
                                THEN <<Op("exists", output_file), Op("stat", output_file)>>
                                ELSE <<Op("exists", output_file)>>),
                  !.console = Append(@, Line("converted", PathName(input_file),
                                             PathName(output_file), ""))],
        [status |-> "[green]Success[/green]",
         input  |-> PathName(input_file),
         output |-> PathName(output_file),
         type   |-> upper(PathSuffix(output_file)),
         size   |-> get_file_size(w.fs, input_file),
         time   |-> DurationLabel(env.ms)])

\* log_success(input_file, output_file, start_time)
log_success(w, input_file, output_file, env) ==
    Returned(
        [w EXCEPT !.ops = @ \o (IF PathExists(w.fs, output_file)
                                THEN <<Op("exists", output_file), Op("stat", output_file)>>
                                ELSE <<Op("exists", output_file)>>),
                  !.console = Append(@, Line("converted", PathName(input_file),
                                             PathName(output_file), ""))],
        [status |-> "[green]Success[/green]",
         input  |-> PathName(input_file),
         output |-> PathName(output_file),
         type   |-> upper(PathSuffix(output_file)),
         size   |-> get_file_size(w.fs, output_file),
         time   |-> DurationLabel(env.ms)])

\* mutant of log_error: the line printed leaves the error out
log_error_WithoutText(w, input_file, output_file, error) ==
    Returned(
        [w EXCEPT !.console = Append(@, Line("Failed", PathName(input_file), "", ""))],
        [status |-> "[red]Failed[/red]",
         input  |-> PathName(input_file),
         output |-> PathName(output_file),
         type   |-> "-",
         size   |-> "-",
         time   |-> "-"])

\* mutant of log_error: the output's name in the input field
log_error_NamesOutput(w, input_file, output_file, error) ==
    Returned(
        [w EXCEPT !.console = Append(@, Line("Failed", PathName(input_file), "", error))],
        [status |-> "[red]Failed[/red]",
         input  |-> PathName(output_file),
         output |-> PathName(output_file),
         type   |-> "-",
         size   |-> "-",
         time   |-> "-"])

\* mutant of log_error: empty strings in place of the dashes
log_error_BlankFields(w, input_file, output_file, error) ==
    Returned(
        [w EXCEPT !.console = Append(@, Line("Failed", PathName(input_file), "", error))],
        [status |-> "[red]Failed[/red]",
         input  |-> PathName(input_file),
         output |-> PathName(output_file),
         type   |-> "",
         size   |-> "",
         time   |-> ""])

\* mutant of log_error: the dict is returned without its "time" entry
log_error_WithoutTime(w, input_file, output_file, error) ==
    Returned(
        [w EXCEPT !.console = Append(@, Line("Failed", PathName(input_file), "", error))],
        [status |-> "[red]Failed[/red]",
         input  |-> PathName(input_file),
         output |-> PathName(output_file),
         type   |-> "-",
         size   |-> "-"])

\* log_error(input_file, output_file, error)
log_error(w, input_file, output_file, error) ==
    Returned(
        [w EXCEPT !.console = Append(@, Line("Failed", PathName(input_file), "", error))],
        [status |-> "[red]Failed[/red]",
         input  |-> PathName(input_file),
         output |-> PathName(output_file),
         type   |-> "-",
         size   |-> "-",
         time   |-> "-"])

\* mutant of Catches: `except OSError`
Catches_OnlyOSError(t) == IsInstance(t, "OSError")

\* mutant of Catches: `except FileNotFoundError`
Catches_OnlyFileNotFound(t) == IsInstance(t, "FileNotFoundError")

\* `except Exception`: the classes the handler of a converter catches
Catches(t) == IsInstance(t, "Exception")

\* output_file.parent.mkdir(parents=True, exist_ok=True)
EnsureParent(w, output_file, env) ==
    LET r == Mkdir(w.fs, PathParent(output_file), env.fault = "mkdir")
    IN  After([w EXCEPT !.fs = r.fs], "mkdir", PathParent(output_file), "mkdir", r.exc)

\* mutant of Load: an error of the read is dropped
Load_DropsError(w, input_file, env, loaded) ==
    IF w.exc # NoExc THEN w
    ELSE After(w, "read", input_file, "load", NoExc)

\* a load of the input inside a try block: skipped with an exception in
\* flight; the environment may fail the read of an existing file
Load(w, input_file, env, loaded) ==
    IF w.exc # NoExc THEN w
    ELSE After(w, "read", input_file, "load",
               IF env.fault = "load" /\ IsFile(w.fs, input_file)
               THEN Exc("OSError", "[Errno 5] Input/output error")
               ELSE loaded.exc)

\* mutant of Store: the output is opened for exclusive creation, a file
\* that is there already is an error
Store_ExclusiveCreate(w, output_file, env, written) ==
    IF w.exc # NoExc THEN w
    ELSE IF written.exc # NoExc
    THEN [w EXCEPT !.exc = written.exc,
                   !.err = [stage |-> "write", type |-> written.exc.type, msg |-> written.exc.msg]]
    ELSE IF PathExists(w.fs, output_file)
    THEN After(w, "write", output_file, "write",
               Exc("FileExistsError", "[Errno 17] File exists"))
    ELSE IF env.fault \in {"write_denied", "write_partial"}
    THEN After(w, "write", output_file, "write",
               Exc("PermissionError", "[Errno 13] Permission denied"))
    ELSE After([w EXCEPT !.fs.files = (output_file :> written.file) @@ @],
               "write", output_file, "write", NoExc)

\* a write of the output inside a try block: skipped with an exception in
\* flight.  The environment may refuse to open the file, or fail the write
\* after the file was opened, which leaves a truncated file behind.
Store(w, output_file, env, written) ==
    IF w.exc # NoExc THEN w
    ELSE IF written.exc # NoExc
    THEN [w EXCEPT !.exc = written.exc,
                   !.err = [stage |-> "write", type |-> written.exc.type, msg |-> written.exc.msg]]
    ELSE IF IsDir(w.fs, output_file)
    THEN After(w, "write", output_file, "write",
               Exc("IsADirectoryError", "[Errno 21] Is a directory"))
    ELSE IF env.fault = "write_denied"
    THEN After(w, "write", output_file, "write",
               Exc("PermissionError", "[Errno 13] Permission denied"))
    ELSE IF env.fault = "write_partial"
    THEN After([w EXCEPT !.fs.files = (output_file :> File("corrupt", <<>>, <<>>, <<>>, <<0, 0, 0, 0, 0>>)) @@ @],
               "write", output_file, "write",
               Exc("OSError", "[Errno 28] No space left on device"))
    ELSE After([w EXCEPT !.fs.files = (output_file :> written.file) @@ @],
               "write", output_file, "write", NoExc)

\* Path(output_file).touch(): creates an empty file, leaves an existing one
Touch(w, output_file, env) ==
    IF w.exc # NoExc THEN w
    ELSE IF PathExists(w.fs, output_file)
    THEN After(w, "touch", output_file, "write", NoExc)
    ELSE IF env.fault \in {"write_denied", "write_partial"}
    THEN After(w, "touch", output_file, "write",
               Exc("PermissionError", "[Errno 13] Permission denied"))
    ELSE After([w EXCEPT !.fs.files = (output_file :> File("csv", <<>>, <<>>, <<>>, <<0, 0, 0, 0, 0>>)) @@ @],
               "touch", output_file, "write", NoExc)

\* mutant of EndTry: the class of the exception is passed, not str(e)
EndTry_PrintsClass(w, input_file, output_file, env) ==
    IF w.exc = NoExc THEN log_success(w, input_file, output_file, env)
    ELSE IF Catches(w.exc.type)
    THEN log_error([w EXCEPT !.exc = NoExc], input_file, output_file, w.exc.type)
    ELSE Returned(w, NoResult)

\* the end of a converter: the return of log_success from the try block,
\* or the except clause
EndTry(w, input_file, output_file, env) ==
    IF w.exc = NoExc THEN log_success(w, input_file, output_file, env)
    ELSE IF Catches(w.exc.type)
    THEN log_error([w EXCEPT !.exc = NoExc], input_file, output_file, w.exc.msg)
    ELSE Returned(w, NoResult)

Plain(file) == [exc |-> NoExc, file |-> file]

(***************************************************************************)
(* The converters.  Then(value, Rest) is one statement after another: Rest *)
(* applied to the value of the statement before it, that value computed    *)
(* once.                                                                   *)
(***************************************************************************)
\* mutant of csv_to_xlsx: the input is read first, and the output directory
\* made only when the read has not failed
csv_to_xlsx_LoadsFirst(w, input_file, output_file, env) ==
    LET Then(value, Rest(_)) == CHOOSE r \in {Rest(x) : x \in {value}} : TRUE
    IN  Then(read_csv(w.fs, input_file), LAMBDA ld :
        Then(Load(Enter(w, "csv_to_xlsx"), input_file, env, ld), LAMBDA w1 :
        Then(IF w1.exc # NoExc THEN w1 ELSE EnsureParent(w1, output_file, env), LAMBDA w2 :
        Then(Store(w2, output_file, env, Plain(to_excel(ld.df, env.size))), LAMBDA w3 :
        EndTry(w3, input_file, output_file, env)))))

csv_to_xlsx(w, input_file, output_file, env) ==
    LET Then(value, Rest(_)) == CHOOSE r \in {Rest(x) : x \in {value}} : TRUE
    IN  Then(EnsureParent(Enter(w, "csv_to_xlsx"), output_file, env), LAMBDA w1 :
        Then(read_csv(w1.fs, input_file), LAMBDA ld :
        Then(Load(w1, input_file, env, ld), LAMBDA w2 :
        Then(Store(w2, output_file, env, Plain(to_excel(ld.df, env.size))), LAMBDA w3 :
        EndTry(w3, input_file, output_file, env)))))

xlsx_to_csv(w, input_file, output_file, env) ==
    LET Then(value, Rest(_)) == CHOOSE r \in {Rest(x) : x \in {value}} : TRUE
    IN  Then(EnsureParent(Enter(w, "xlsx_to_csv"), output_file, env), LAMBDA w1 :
        Then(read_excel(w1.fs, input_file), LAMBDA ld :
        Then(Load(w1, input_file, env, ld), LAMBDA w2 :
        Then(Store(w2, output_file, env, Plain(to_csv(ld.df, env.size))), LAMBDA w3 :
        EndTry(w3, input_file, output_file, env)))))

csv_to_parquet(w, input_file, output_file, env) ==
    LET Then(value, Rest(_)) == CHOOSE r \in {Rest(x) : x \in {value}} : TRUE
    IN  Then(EnsureParent(Enter(w, "csv_to_parquet"), output_file, env), LAMBDA w1 :
        Then(read_csv(w1.fs, input_file), LAMBDA ld :
        Then(Load(w1, input_file, env, ld), LAMBDA w2 :
        Then(Store(w2, output_file, env, to_parquet(ld.df, env.size)), LAMBDA w3 :
        EndTry(w3, input_file, output_file, env)))))

parquet_to_csv(w, input_file, output_file, env) ==
    LET Then(value, Rest(_)) == CHOOSE r \in {Rest(x) : x \in {value}} : TRUE
    IN  Then(EnsureParent(Enter(w, "parquet_to_csv"), output_file, env), LAMBDA w1 :
        Then(read_parquet(w1.fs, input_file), LAMBDA ld :
        Then(Load(w1, input_file, env, ld), LAMBDA w2 :
        Then(Store(w2, output_file, env, Plain(to_csv(ld.df, env.size))), LAMBDA w3 :
        EndTry(w3, input_file, output_file, env)))))

numbers_to_csv(w, input_file, output_file, env) ==
    LET Then(value, Rest(_)) == CHOOSE r \in {Rest(x) : x \in {value}} : TRUE
    IN  Then(EnsureParent(Enter(w, "numbers_to_csv"), output_file, env), LAMBDA w1 :
        Then(numbers_rows(w1.fs, input_file), LAMBDA ld :
        Then(Load(w1, input_file, env, ld), LAMBDA w2 :
        Then(IF w2.exc # NoExc THEN w2
             ELSE IF ld.data = <<>> THEN Touch(w2, output_file, env)
             ELSE Store(w2, output_file, env, Plain(to_csv(DataFrameOf(ld.data), env.size))),
             LAMBDA w3 :
        EndTry(w3, input_file, output_file, env)))))

(***************************************************************************)
(* Inference.                                                              *)
(***************************************************************************)
\* mutant of mapping: a sixth entry, for the pair .xlsx -> .parquet
mapping_WithChainedPair ==
    (<<".csv", ".xlsx">> :> "csv_to_xlsx") @@
    (<<".xlsx", ".csv">> :> "xlsx_to_csv") @@
    (<<".csv", ".parquet">> :> "csv_to_parquet") @@
    (<<".parquet", ".csv">> :> "parquet_to_csv") @@
    (<<".numbers", ".csv">> :> "numbers_to_csv") @@
    (<<".xlsx", ".parquet">> :> "csv_to_parquet")

\* mutant of mapping: a sixth entry, for the pair .csv -> .csv
mapping_WithSameExtension ==
    (<<".csv", ".xlsx">> :> "csv_to_xlsx") @@
    (<<".xlsx", ".csv">> :> "xlsx_to_csv") @@
    (<<".csv", ".parquet">> :> "csv_to_parquet") @@
    (<<".parquet", ".csv">> :> "parquet_to_csv") @@
    (<<".numbers", ".csv">> :> "numbers_to_csv") @@
    (<<".csv", ".csv">> :> "csv_to_xlsx")

\* the dict of infer_and_run_conversion, built anew on every call
mapping ==
    (<<".csv", ".xlsx">> :> "csv_to_xlsx") @@
    (<<".xlsx", ".csv">> :> "xlsx_to_csv") @@
    (<<".csv", ".parquet">> :> "csv_to_parquet") @@
    (<<".parquet", ".csv">> :> "parquet_to_csv") @@
    (<<".numbers", ".csv">> :> "numbers_to_csv")

\* dict.get(key): None when the key is absent
DictGet(d, key) == IF key \in DOMAIN d THEN d[key] ELSE "None"

\* mutant of LookupExt: the suffix as written
LookupExt_AsWritten(path) == PathSuffix(path)

\* the extension of a path as the lookup uses it
LookupExt(path) == lower(PathSuffix(path))

\* the converter infer_and_run_conversion selects, "None" when there is none
SelectConverter(input_path, output_path) ==
    DictGet(mapping, <<LookupExt(input_path), LookupExt(output_path)>>)

\* mutant of infer_and_run_conversion: the output directory is created
\* before the converter is looked up
infer_and_run_conversion_MkdirFirst(w, input_path, output_path, env) ==
    LET converter == SelectConverter(input_path, output_path)
        w0 == [EnsureParent(w, output_path, env) EXCEPT !.exc = NoExc, !.err = w.err]
    IN  CASE converter = "csv_to_xlsx"    -> csv_to_xlsx(w0, input_path, output_path, env)
          [] converter = "xlsx_to_csv"    -> xlsx_to_csv(w0, input_path, output_path, env)
          [] converter = "csv_to_parquet" -> csv_to_parquet(w0, input_path, output_path, env)
          [] converter = "parquet_to_csv" -> parquet_to_csv(w0, input_path, output_path, env)
          [] converter = "numbers_to_csv" -> numbers_to_csv(w0, input_path, output_path, env)
          [] OTHER -> log_error(w0, input_path, output_path,
                                "No valid converter found for format pair")

\* infer_and_run_conversion(input_path, output_path)
infer_and_run_conversion(w, input_path, output_path, env) ==
    LET converter == SelectConverter(input_path, output_path)
    IN  CASE converter = "csv_to_xlsx"    -> csv_to_xlsx(w, input_path, output_path, env)
          [] converter = "xlsx_to_csv"    -> xlsx_to_csv(w, input_path, output_path, env)
          [] converter = "csv_to_parquet" -> csv_to_parquet(w, input_path, output_path, env)
          [] converter = "parquet_to_csv" -> parquet_to_csv(w, input_path, output_path, env)
          [] converter = "numbers_to_csv" -> numbers_to_csv(w, input_path, output_path, env)
          [] OTHER -> log_error(w, input_path, output_path,
                                "No valid converter found for format pair")

(***************************************************************************)
(* The paths of __main__ and of the task lists the model draws.            *)
(***************************************************************************)
data_path == "data"

sample_csv == Join(data_path, "sample.csv")

Task(input_p, output_p) == <<Join(data_path, input_p), Join(data_path, output_p)>>

\* the task list of __main__
MainTasks ==
    << Task("sample.csv", "converted/smart_sample.xlsx"),
       Task("sample.csv", "converted/smart_sample.parquet"),
       Task("converted/smart_sample.xlsx", "converted/roundtrip.csv"),
       Task("missing.numbers", "converted/fail_test.csv"),
       Task("sample.csv", "converted/unknown_format.xyz") >>

\* further tasks: upper-case extensions, the pair of the specification's
\* example (.txt -> .yaml), a pair that two registered conversions would
\* chain to, an identity pair and a registered pair with a missing input, a
\* Numbers source, and an input that is absent
TaskPool ==
    { Task("sample.csv", "converted/smart_sample.xlsx"),
      Task("converted/smart_sample.xlsx", "converted/roundtrip.csv"),
      Task("DATA.CSV", "out.XLSX"),
      Task("notes.txt", "notes.yaml"),
      Task("converted/smart_sample.xlsx", "converted/chained.parquet"),
      Task("missing.csv", "copy.csv"),
      Task("missing.csv", "converted/missing.xlsx"),
      Task("book.numbers", "book.csv"),
      Task("absent.csv", "converted/absent.xlsx") }

\* the four round trips through a registered pair and its inverse
RoundTripCsvXlsx ==
    << Task("sample.csv", "converted/smart_sample.xlsx"),
       Task("converted/smart_sample.xlsx", "converted/roundtrip.csv") >>

RoundTripCsvParquet ==
    << Task("sample.csv", "converted/smart_sample.parquet"),
       Task("converted/smart_sample.parquet", "converted/back.csv") >>

RoundTripXlsxCsv ==
    << Task("book.xlsx", "converted/book.csv"),
       Task("converted/book.csv", "converted/book.xlsx") >>

RoundTripParquetCsv ==
    << Task("cols.parquet", "converted/cols.csv"),
       Task("converted/cols.csv", "converted/cols.parquet") >>

SeqsUpTo(S, n) == UNION {[1..k -> S] : k \in 0..n}

(***************************************************************************)
(* File contents and filesystems the runs start from.                      *)
(***************************************************************************)
Bytes(n) == <<n, 0, 0, 0, 0>>

\* pd.DataFrame({'a': [1,2], 'b': [3,4]})
SampleFrame ==
    Frame(<<"a", "b">>, <<"int64", "int64">>,
          << <<V_int(1), V_int(3)>>, <<V_int(2), V_int(4)>> >>)

\* the sample.csv that __main__ writes when there is none: 12 bytes
SampleCsv == to_csv(SampleFrame, Bytes(12))

\* CSV files a user may have put at data/sample.csv
CsvSources ==
    {File("csv", <<"a">>, <<>>, rows, Bytes(40)) :
        rows \in SeqsUpTo([1..1 -> {"1", "007", "NA"}], MaxRows)}
    \cup
    {File("csv", header, <<>>, rows, Bytes(40)) :
        header \in {<<"a", "b">>, <<"a", "a">>, <<"a", "">>},
        rows \in SeqsUpTo([1..2 -> {"1", "2"}], MaxRows)}
    \cup {SampleCsv}

\* workbooks a user may have put at data/book.xlsx
XlsxSources ==
    {File("xlsx", <<V_str("a")>>, <<>>, rows, <<0, 5, 0, 0, 0>>) :
        rows \in SeqsUpTo([1..1 -> {V_num(1), V_str("007"), V_empty}], MaxRows)}

\* Parquet files a user may have put at data/cols.parquet
ParquetSources ==
    {File("parquet", <<"a">>, <<"int64">>, rows, <<0, 2, 0, 0, 0>>) :
        rows \in SeqsUpTo([1..1 -> {V_int(1), V_int(7)}], MaxRows)}
    \cup
    {File("parquet", <<"a">>, <<"object">>, rows, <<0, 2, 0, 0, 0>>) :
        rows \in SeqsUpTo([1..1 -> {V_str("007"), V_nan}], MaxRows) \ {<<>>}}

\* a Numbers document: a header row and one data row
BookNumbers ==
    File("numbers", <<>>, <<>>,
         << <<V_str("a"), V_str("b")>>, <<V_float(1), V_str("x")>> >>, <<0, 0, 1, 0, 0>>)

\* a Numbers document whose first table has no rows
EmptyNumbers == File("numbers", <<>>, <<>>, <<>>, <<0, 0, 1, 0, 0>>)

\* Numbers documents a user may have put at data/book.numbers: a first row
\* and up to MaxRows rows after it
NumbersSources ==
    {File("numbers", <<>>, <<>>, <<first>> \o rows, <<0, 0, 1, 0, 0>>) :
        first \in {<<V_str("a"), V_str("b")>>, <<V_str("a"), V_float(7)>>},
        rows \in SeqsUpTo({<<V_float(1), V_str("x")>>, <<V_float(2), V_nan>>}, MaxRows)}

UpperCsv == File("csv", <<"x">>, <<>>, << <<"1">> >>, Bytes(4))

NotesTxt == File("text", <<>>, <<>>, <<>>, Bytes(500))

FileSystem(dirs, files) == [dirs |-> dirs, files |-> files]

\* an empty working directory
FsFresh == FileSystem({Cwd}, <<>>)

\* data/ with the user's inputs, nothing converted yet
FsData ==
    FileSystem({Cwd, data_path},
               (sample_csv :> SampleCsv) @@
               (Join(data_path, "DATA.CSV") :> UpperCsv) @@
               (Join(data_path, "notes.txt") :> NotesTxt) @@
               (Join(data_path, "book.numbers") :> BookNumbers))

\* data/ after an earlier run of __main__
FsRerun ==
    FileSystem({Cwd, data_path, Join(data_path, "converted")},
               (sample_csv :> SampleCsv) @@
               (Join(data_path, "DATA.CSV") :> UpperCsv) @@
               (Join(data_path, "book.numbers") :> EmptyNumbers) @@
               (Join(data_path, "converted/smart_sample.xlsx") :> to_excel(SampleFrame, <<0, 5, 0, 0, 0>>)) @@
               (Join(data_path, "converted/smart_sample.parquet") :> to_parquet(SampleFrame, <<0, 2, 0, 0, 0>>).file) @@
               (Join(data_path, "converted/roundtrip.csv") :> SampleCsv))

\* data/ where a file stands at the place of the output directory
FsBlocked ==
    FileSystem({Cwd, data_path},
               (sample_csv :> SampleCsv) @@
               (Join(data_path, "converted") :> NotesTxt))

WithFile(fsys, p, f) == [fsys EXCEPT !.files = (p :> f) @@ @]

\* data/ where book.csv is left from an earlier conversion of book.numbers
FsStale(book) ==
    WithFile(WithFile(FsData, Join(data_path, "book.numbers"), book),
             Join(data_path, "book.csv"), SampleCsv)

\* data/ where a directory stands at the output path data/book.csv
FsOutputDir(book) ==
    [WithFile(FsData, Join(data_path, "book.numbers"), book)
        EXCEPT !.dirs = @ \cup {Join(data_path, "book.csv")}]

\* a conversion into data/out/nested, of which data/out does not exist yet
NestedTasks == << Task("sample.csv", "out/nested/sample.xlsx") >>

\* the same conversion twice in a row, to and from Parquet
RepeatedTasks ==
    {<<t, t>> : t \in {Task("sample.csv", "converted/smart_sample.parquet"),
                       Task("cols.parquet", "converted/cols.csv")}}

\* a task whose output path is its input path, before a conversion of the
\* same input
OntoItselfTasks ==
    << Task("sample.csv", "sample.csv"), Task("sample.csv", "converted/smart_sample.xlsx") >>

\* the runs the model starts: task lists drawn from the pool, the list of
\* __main__, the round trips over drawn tables, a Numbers conversion onto an
\* output path that is taken, the conversion of drawn Numbers documents, a
\* conversion into a nested directory, a task onto its own input, and a
\* conversion made twice in a row (the lists drawn from the pool have others)
InitConfigs ==
    {[tasks |-> t, fs |-> f] : t \in SeqsUpTo(TaskPool, MaxTasks), f \in {FsData, FsRerun}}
    \cup
    {[tasks |-> MainTasks, fs |-> f] : f \in {FsFresh, FsData, FsRerun, FsBlocked}}
    \cup
    {[tasks |-> t, fs |-> WithFile(FsData, sample_csv, f)] :
        t \in {RoundTripCsvXlsx, RoundTripCsvParquet}, f \in CsvSources}
    \cup
    {[tasks |-> RoundTripXlsxCsv, fs |-> WithFile(FsData, Join(data_path, "book.xlsx"), f)] :
        f \in XlsxSources}
    \cup
    {[tasks |-> RoundTripParquetCsv, fs |-> WithFile(FsData, Join(data_path, "cols.parquet"), f)] :
        f \in ParquetSources}
    \cup
    {[tasks |-> << Task("book.numbers", "book.csv") >>, fs |-> f] :
        f \in {FsStale(EmptyNumbers), FsStale(BookNumbers),
                FsOutputDir(EmptyNumbers), FsOutputDir(BookNumbers)}}
    \cup
    {[tasks |-> << Task("book.numbers", "book.csv") >>, fs |-> f] :
        f \in UNION {{WithFile(FsData, Join(data_path, "book.numbers"), b), FsStale(b)} :
                        b \in NumbersSources}}
    \cup
    {[tasks |-> NestedTasks, fs |-> f] : f \in {FsFresh, FsData, FsRerun}}
    \cup
    {[tasks |-> OntoItselfTasks, fs |-> f] : f \in {FsData, FsRerun}}
    \cup
    {[tasks |-> t, fs |-> WithFile(FsData, Join(data_path, "cols.parquet"), f)] :
        t \in RepeatedTasks, f \in ParquetSources}

\* what the environment may decide for a converter call
Envs ==
    { [fault |-> "none", size |-> Bytes(500), ms |-> 4],
      [fault |-> "none", size |-> <<0, 2, 0, 0, 0>>, ms |-> 1236],
      [fault |-> "mkdir", size |-> Bytes(500), ms |-> 4],
      [fault |-> "load", size |-> Bytes(500), ms |-> 4],
      [fault |-> "write_denied", size |-> Bytes(500), ms |-> 4],
      [fault |-> "write_partial", size |-> Bytes(500), ms |-> 4] }

(***************************************************************************)
(* __main__: the setup, the batch loop and the report.                     *)
(***************************************************************************)
VARIABLES
    pc,        \* "setup", "loop", "done", or "crashed" after an uncaught exception;
               \* with converters side by side, the position of each; in the
               \* other programs, the one position they have
    tasks,     \* the list of (input, output) pairs
    idx,       \* the position of the for loop in tasks; for rename_files, the
               \* number of the run
    results,   \* the list the loop appends to
    fs,        \* the filesystem
    console,   \* the lines printed by log_success and log_error, by
               \* add_function, by rename_files
    report,    \* the rows of the report table; the lines of list_tools
    oplog,     \* history: the filesystem operations made, with the task's position
    calls,     \* history: the calls of infer_and_run_conversion, with the
               \* wall time each took; the calls of add_function; the runs
               \* of rename_files, with what each renamed
    label      \* what a lone call returned: get_file_size its label, the batch
               \* run in two orders its two outcomes, find_project_root its
               \* path; for tool_guide.py, TOOL_REGISTRY

vars == <<pc, tasks, idx, results, fs, console, report, oplog, calls, label>>

Init ==
    /\ pc = "setup"
    /\ \E c \in InitConfigs : tasks = c.tasks /\ fs = c.fs
    /\ idx = 1
    /\ results = <<>>
    /\ console = <<>>
    /\ report = <<>>
    /\ oplog = <<>>
    /\ calls = <<>>
    /\ label = ""

Tagged(ops, k) == [j \in DOMAIN ops |-> [task |-> k, op |-> ops[j].op, path |-> ops[j].path]]

\* lines 172-178: write data/sample.csv when there is none
Setup ==
    /\ pc = "setup"
    /\ IF PathExists(fs, sample_csv)
       THEN /\ fs' = fs
            /\ pc' = "loop"
            /\ oplog' = oplog \o Tagged(<<Op("exists", sample_csv)>>, 0)
       ELSE LET mk == Mkdir(fs, data_path, FALSE)
            IN  /\ fs' = IF mk.exc = NoExc THEN WithFile(mk.fs, sample_csv, SampleCsv) ELSE mk.fs
                /\ pc' = IF mk.exc = NoExc THEN "loop" ELSE "crashed"
                /\ oplog' = oplog \o Tagged(<<Op("exists", sample_csv), Op("mkdir", data_path),
                                              Op("write", sample_csv)>>, 0)
    /\ UNCHANGED <<tasks, idx, results, console, report, calls, label>>

input_p == tasks[idx][1]

output_p == tasks[idx][2]

\* mutant of Skipped: every task whose input does not exist is skipped
Skipped_WithoutMissingTest(fsys, p) == ~PathExists(fsys, p)

\* line 196: the input does not exist and its path does not say "missing"
Skipped(fsys, p) == ~PathExists(fsys, p) /\ ~Contains(p, "missing")

\* lines 194-197: an iteration that skips its task
SkipTask ==
    /\ pc = "loop"
    /\ idx <= Len(tasks)
    /\ Skipped(fs, input_p)
    /\ idx' = idx + 1
    /\ oplog' = oplog \o Tagged(<<Op("exists", input_p)>>, idx)
    /\ UNCHANGED <<pc, tasks, results, fs, console, report, calls, label>>

\* mutant of RunTask: the result is appended only when it is a Success
RunTask_DropsFailures(env) ==
    /\ pc = "loop"
    /\ idx <= Len(tasks)
    /\ ~Skipped(fs, input_p)
    /\ \E out \in {infer_and_run_conversion(World(fs, console), input_p, output_p, env)} :
           /\ fs' = out.w.fs
           /\ console' = out.w.console
           /\ oplog' = oplog \o Tagged(<<Op("exists", input_p)>> \o out.w.ops, idx)
           /\ calls' = Append(calls, [task |-> idx, input |-> input_p, output |-> output_p,
                                      converter |-> out.w.ran, err |-> out.w.err,
                                      raised |-> out.w.exc.type, ms |-> env.ms])
           /\ results' = IF out.ret.status = "[green]Success[/green]"
                         THEN Append(results, out.ret) ELSE results
           /\ idx' = idx + 1
           /\ pc' = pc
    /\ UNCHANGED <<tasks, report, label>>

\* mutant of RunTask: the conversion is started and the loop goes on to the
\* next task without waiting for the result
RunTask_NoWait(env) ==
    /\ pc = "loop"
    /\ idx <= Len(tasks)
    /\ ~Skipped(fs, input_p)
    /\ \E out \in {infer_and_run_conversion(World(fs, console), input_p, output_p, env)} :
           /\ fs' = out.w.fs
           /\ console' = out.w.console
           /\ oplog' = oplog \o Tagged(<<Op("exists", input_p)>> \o out.w.ops, idx)
           /\ calls' = Append(calls, [task |-> idx, input |-> input_p, output |-> output_p,
                                      converter |-> out.w.ran, err |-> out.w.err,
                                      raised |-> out.w.exc.type, ms |-> env.ms])
           /\ results' = IF idx = Len(tasks) THEN Append(results, out.ret) ELSE results
           /\ idx' = idx + 1
           /\ pc' = pc
    /\ UNCHANGED <<tasks, report, label>>

\* lines 194-201: an iteration that calls infer_and_run_conversion
RunTask(env) ==
    /\ pc = "loop"
    /\ idx <= Len(tasks)
    /\ ~Skipped(fs, input_p)
    /\ \E out \in {infer_and_run_conversion(World(fs, console), input_p, output_p, env)} :
           /\ fs' = out.w.fs
           /\ console' = out.w.console
           /\ oplog' = oplog \o Tagged(<<Op("exists", input_p)>> \o out.w.ops, idx)
           /\ calls' = Append(calls, [task |-> idx, input |-> input_p, output |-> output_p,
                                      converter |-> out.w.ran, err |-> out.w.err,
                                      raised |-> out.w.exc.type, ms |-> env.ms])
           /\ IF out.w.exc = NoExc
              THEN /\ results' = Append(results, out.ret)
                   /\ idx' = idx + 1
                   /\ pc' = pc
              ELSE /\ pc' = "crashed"
                   /\ UNCHANGED <<results, idx>>
    /\ UNCHANGED <<tasks, report, label>>

\* an iteration whose pair has a converter: the environment decides env
ConvertTask ==
    /\ pc = "loop" /\ idx <= Len(tasks)
    /\ SelectConverter(input_p, output_p) # "None"
    /\ \E env \in Envs : RunTask(env)

\* an iteration whose pair has no converter
UnsupportedTask ==
    /\ pc = "loop" /\ idx <= Len(tasks)
    /\ SelectConverter(input_p, output_p) = "None"
    /\ RunTask(CHOOSE env \in Envs : env.fault = "none" /\ env.ms = 4)

\* the keys that lines 214-215 read from a result
RowKeys == {"status", "input", "output", "type", "size", "time"}

\* lines 204-219: the report table, one row per result; res[...] of a key
\* that a result does not have raises KeyError, which nobody catches
Report ==
    /\ pc = "loop"
    /\ idx > Len(tasks)
    /\ IF \A k \in DOMAIN results : RowKeys \subseteq DOMAIN results[k]
       THEN /\ report' = [k \in DOMAIN results |->
                            <<results[k].status, results[k].input, results[k].output,
                              results[k].type, results[k].size, results[k].time>>]
            /\ pc' = "done"
       ELSE /\ report' = report
            /\ pc' = "crashed"
    /\ UNCHANGED <<tasks, idx, results, fs, console, oplog, calls, label>>

Next == Setup \/ SkipTask \/ ConvertTask \/ UnsupportedTask \/ Report

Spec == Init /\ [][Next]_vars

\* what a step of Next does to the position of the program: the setup ends,
\* an iteration moves to the next task or ends the run with an exception
\* nobody caught, the report ends the run.  Advance is enabled exactly where
\* Next is.
Advance ==
    \/ pc = "setup" /\ pc' \in {"loop", "crashed"} /\ idx' = idx
    \/ pc = "loop" /\ idx <= Len(tasks) /\ pc' = "loop" /\ idx' = idx + 1
    \/ pc = "loop" /\ idx <= Len(tasks) /\ pc' = "crashed" /\ idx' = idx
    \/ pc = "loop" /\ idx > Len(tasks) /\ pc' = "done" /\ idx' = idx

\* __main__ is a sequential program: while it has a statement to run, it
\* runs it
FairSpec == Spec /\ WF_<<pc, idx>>(Advance)

(***************************************************************************)
(* get_file_size on its own: a file of a drawn size at data/sample.csv,    *)
(* or no file at all, and one call.                                        *)
(***************************************************************************)
\* st_size values around the unit boundaries, as base-1024 digits
SizeInputs ==
    {<<d1, d2, d3, d4, d5>> :
        d1 \in {0, 1, 256, 500, 512, 1023}, d2 \in {0, 1, 2, 512, 1023},
        d3 \in {0, 1, 1023}, d4 \in {0, 1, 1023}, d5 \in {0, 1, 5000}}

InitSize ==
    /\ pc = "size"
    /\ fs \in {WithFile(FsFresh, sample_csv, File("csv", <<>>, <<>>, <<>>, d)) : d \in SizeInputs}
              \cup {FsFresh}
    /\ tasks = <<>>
    /\ idx = 1
    /\ results = <<>>
    /\ console = <<>>
    /\ report = <<>>
    /\ oplog = <<>>
    /\ calls = <<>>
    /\ label = ""

GetFileSize ==
    /\ pc = "size"
    /\ label' = get_file_size(fs, sample_csv)
    /\ pc' = "sized"
    /\ UNCHANGED <<tasks, idx, results, fs, console, report, oplog, calls>>

SizeSpec == InitSize /\ [][GetFileSize]_vars

(***************************************************************************)
(* The batch loop as a function, and its tasks taken in another order: the *)
(* body of the loop (lines 194-201) applied to the tasks one at a time, in *)
(* the order of the list or in a permutation of it, from the same          *)
(* filesystem and with the same decisions of the environment for each      *)
(* task.                                                                   *)
(***************************************************************************)
\* lines 196-201 for one task: skipped, or passed to infer_and_run_conversion
LoopBody(fsys, task, env) ==
    IF Skipped(fsys, task[1]) THEN [fs |-> fsys, ret |-> NoResult]
    ELSE CHOOSE r \in {[fs |-> out.w.fs, ret |-> out.ret] :
                         out \in {infer_and_run_conversion(World(fsys, <<>>), task[1], task[2], env)}} :
             TRUE

\* the loop over the tasks at the positions order[k], order[k+1], ...: the
\* filesystem it leaves and the result of each task, by the task's position
RECURSIVE RunInOrder(_, _, _, _, _)
RunInOrder(fsys, ts, order, envs, k) ==
    IF k > Len(order) THEN [fs |-> fsys, rets |-> <<>>]
    ELSE CHOOSE r \in UNION
            {{[fs |-> rest.fs, rets |-> (order[k] :> step.ret) @@ rest.rets] :
                 rest \in {RunInOrder(step.fs, ts, order, envs, k + 1)}} :
                     step \in {LoopBody(fsys, ts[order[k]], envs[order[k]])}} : TRUE

\* the tasks of __main__ (the second conversion of its list reads the output
\* of the first), a second conversion onto roundtrip.csv from a Numbers
\* source that exists, and a task whose input is the output directory
OrderPool ==
    { Task("sample.csv", "converted/smart_sample.xlsx"),
      Task("sample.csv", "converted/smart_sample.parquet"),
      Task("converted/smart_sample.xlsx", "converted/roundtrip.csv"),
      Task("missing.numbers", "converted/fail_test.csv"),
      Task("sample.csv", "converted/unknown_format.xyz"),
      Task("book.numbers", "converted/roundtrip.csv"),
      Task("converted", "notes.yaml") }

\* lists of different tasks
OrderLists ==
    {t \in SeqsUpTo(OrderPool, MaxTasks) : \A i, j \in DOMAIN t : i # j => t[i] # t[j]}

\* what the environment may decide for a task, in whatever order it is run
OrderEnvs == {env \in Envs : env.ms = 4 /\ env.fault \in {"none", "write_denied"}}

Orders(n) == {f \in [1..n -> 1..n] : \A i, j \in 1..n : i # j => f[i] # f[j]}

InitOrder ==
    /\ pc = "batch"
    /\ tasks \in OrderLists
    /\ fs \in {FsData, FsRerun}
    /\ idx = 1
    /\ results = <<>>
    /\ console = <<>>
    /\ report = <<>>
    /\ oplog = <<>>
    /\ calls = <<>>
    /\ label = ""

\* the batch run in the order of the list, and in the order `order`
Reorder ==
    /\ pc = "batch"
    /\ \E order \in Orders(Len(tasks)), envs \in [DOMAIN tasks -> OrderEnvs] :
          label' = [order |-> order,
                    envs  |-> envs,
                    seq   |-> RunInOrder(fs, tasks, [k \in DOMAIN tasks |-> k], envs, 1),
                    alt   |-> RunInOrder(fs, tasks, order, envs, 1)]
    /\ pc' = "compared"
    /\ UNCHANGED <<tasks, idx, results, fs, console, report, oplog, calls>>

OrderSpec == InitOrder /\ [][Reorder]_vars

(***************************************************************************)
(* Line 71 (and 82, 93, 104, 115) with converters running at the same      *)
(* time: output_file.parent.mkdir(parents=True, exist_ok=True), one system *)
(* call at a time.  Path.mkdir calls os.mkdir; when that finds the parent  *)
(* missing (ENOENT) and parents is set, it makes the parent the same way   *)
(* and calls os.mkdir again, without parents; on any other error it asks   *)
(* is_dir() and, with exist_ok set, returns when the path is a directory,  *)
(* and raises the error otherwise.                                         *)
(***************************************************************************)
\* the converters that run side by side
Workers == 1..MaxWorkers

\* a call of Path.mkdir on the stack of a converter: at its os.mkdir, or at
\* the is_dir() that follows an error, which it holds
Frame_mkdir(path, parents) ==
    [path |-> path, parents |-> parents, phase |-> "mkdir", exc |-> NoExc]

\* os.mkdir(p): what the system answers
OsMkdir(fsys, p) ==
    IF PathExists(fsys, p) THEN "EEXIST"
    ELSE IF IsFile(fsys, PathParent(p)) THEN "ENOTDIR"
    ELSE IF ~IsDir(fsys, PathParent(p)) THEN "ENOENT"
    ELSE "ok"

\* the exception of an errno
OsError(errno) ==
    CASE errno = "EEXIST"  -> Exc("FileExistsError", "[Errno 17] File exists")
      [] errno = "ENOTDIR" -> Exc("NotADirectoryError", "[Errno 20] Not a directory")
      [] errno = "ENOENT"  -> Exc("FileNotFoundError", "[Errno 2] No such file or directory")

\* mutant of Tolerates: exist_ok=False
Tolerates_Never(fsys, p) == FALSE

\* `if not exist_ok or not self.is_dir(): raise`, with exist_ok=True
Tolerates(fsys, p) == IsDir(fsys, p)

\* the position of a converter: in mkdir with a stack of calls, at its load
\* step, or in its except clause with the exception raised; met is history:
\* the paths its os.mkdir found existing
AtMkdir(frames, met) == [at |-> "mkdir", frames |-> frames, exc |-> NoExc, met |-> met]

AtLoad(met) == [at |-> "load", frames |-> <<>>, exc |-> NoExc, met |-> met]

AtExcept(exc, met) == [at |-> "except", frames |-> <<>>, exc |-> exc, met |-> met]

\* a call of Path.mkdir has returned
Return(frames, met) == IF Len(frames) = 1 THEN AtLoad(met) ELSE AtMkdir(Tail(frames), met)

\* tasks whose outputs go to the same directories: data/converted,
\* data/out/nested and data itself
MkdirPool ==
    { Task("sample.csv", "converted/smart_sample.xlsx"),
      Task("sample.csv", "converted/smart_sample.parquet"),
      Task("sample.csv", "out/nested/sample.xlsx"),
      Task("DATA.CSV", "out.XLSX") }

InitMkdir ==
    /\ tasks \in [Workers -> MkdirPool]
    /\ fs \in {FsFresh, FsData, FsRerun, FsBlocked}
    /\ pc = [p \in Workers |-> AtMkdir(<<Frame_mkdir(PathParent(tasks[p][2]), TRUE)>>, {})]
    /\ idx = 1
    /\ results = <<>>
    /\ console = <<>>
    /\ report = <<>>
    /\ oplog = <<>>
    /\ calls = <<>>
    /\ label = ""

\* the next system call of converter p in mkdir
MkdirStep(p) ==
    /\ pc[p].at = "mkdir"
    /\ LET frames == pc[p].frames
           met    == pc[p].met
           top    == Head(frames)
           errno  == OsMkdir(fs, top.path)
       IN  IF top.phase = "mkdir"
           THEN CASE errno = "ok" ->
                       /\ fs' = [fs EXCEPT !.dirs = @ \cup {top.path}]
                       /\ pc' = [pc EXCEPT ![p] = Return(frames, met)]
                  [] errno = "ENOENT" ->
                       /\ fs' = fs
                       /\ pc' = [pc EXCEPT ![p] =
                                   IF ~top.parents \/ PathParent(top.path) = top.path
                                   THEN AtExcept(OsError(errno), met)
                                   ELSE AtMkdir(<<Frame_mkdir(PathParent(top.path), TRUE),
                                                  Frame_mkdir(top.path, FALSE)>>
                                                \o Tail(frames), met)]
                  [] OTHER ->
                       /\ fs' = fs
                       /\ pc' = [pc EXCEPT ![p] =
                                   AtMkdir(<<[top EXCEPT !.phase = "is_dir",
                                                         !.exc = OsError(errno)]>>
                                           \o Tail(frames),
                                           IF errno = "EEXIST" THEN met \cup {top.path} ELSE met)]
           ELSE /\ fs' = fs
                /\ pc' = [pc EXCEPT ![p] = IF Tolerates(fs, top.path)
                                           THEN Return(frames, met)
                                           ELSE AtExcept(top.exc, met)]
    /\ UNCHANGED <<tasks, idx, results, console, report, oplog, calls, label>>

MkdirNext == \E p \in Workers : MkdirStep(p)

\* every converter that can take a step eventually takes one
MkdirSpec == InitMkdir /\ [][MkdirNext]_vars /\ \A p \in Workers : WF_vars(MkdirStep(p))

(***************************************************************************)
(* gamma_grounds/tools/tool_guide.py: the registry of tools, add_function  *)
(* and list_tools.  The registry is held in the variable label, the calls  *)
(* of add_function in calls, what is printed in console, and what the last *)
(* list_tools printed in report.                                           *)
(***************************************************************************)
\* most calls of add_function in a run
MaxCalls == 3

\* an entry of a tool's "functions" list
FunctionEntry(name, description) == [name |-> name, description |-> description]

\* an entry of the registry
ToolEntry(category, functions) == [category |-> category, functions |-> functions]

\* lines 15-118: the registry as the module defines it
InitialRegistry ==
    ("check_eda_env" :> ToolEntry("Env Setup", <<
           FunctionEntry("eda_env()",
                         "Check EDA Environment for essential packages") >>)) @@
    ("eda_starter" :> ToolEntry("EDA Util", <<
           FunctionEntry("set_styles()",
                         "Set Global Config (pandas, seaborn)"),
           FunctionEntry("check_missing(df)",
                         "Check for missing values in DF"),
           FunctionEntry("visualize_missing(df)",
                         "Visualize missing data patterns in DF"),
           FunctionEntry("check_sparsity(df, target_col)",
                         "Check DF to determine if 0-inflated"),
           FunctionEntry("inspect_categories(df, top_n=10)",
                         "Shows top values for cat-features (NPU, Zone)"),
           FunctionEntry("plot_distributions(df, numeric_cols=None)",
                         "Plots histograms for numerical data"),
           FunctionEntry("plot_correlation_matrix(df)",
                         "Plot correlation mat for num-features in DF"),
           FunctionEntry("plot_boxplots(df, numeric_cols=None)",
                         "Plots boxplots for num-data to identify outliers") >>)) @@
    ("eda_data_quality" :> ToolEntry("Data Quality", <<
           FunctionEntry("check_duplicates(df, subset=None)",
                         "Identify duplicate records in DF"),
           FunctionEntry("check_date_gaps(df, date_col, freq='D')",
                         "Find missing time periods in temporal data"),
           FunctionEntry("validate_coordinates(df, lat_col, lon_col)",
                         "Check if lat/lon are in valid ranges (ATL default)") >>)) @@
    ("eda_crime_analysis" :> ToolEntry("Crime Analysis", <<
           FunctionEntry("temporal_patterns(df, date_col, freq='M')",
                         "Analyze crime trends over time with visualization"),
           FunctionEntry("spatial_summary(df, groupby_col='npu')",
                         "Crime counts by geography (NPU, Zone, Beat)"),
           FunctionEntry("crime_type_distribution(df, crime_col)",
                         "Distribution of crime types with pie/bar charts") >>)) @@
    ("eda_feature_engineering" :> ToolEntry("Feature Eng", <<
           FunctionEntry("create_time_features(df, date_col)",
                         "Extract year, month, day, hour, cyclical features"),
           FunctionEntry("flag_outliers(df, cols, method='iqr')",
                         "Flag outliers using IQR or Z-score method"),
           FunctionEntry("encode_categories(df, cols, method='onehot')",
                         "One-hot or label encode categorical variables"),
           FunctionEntry("create_interaction_features(df, col1, col2)",
                         "Create interaction terms (multiply, add, etc.)") >>))

\* the module's global
TOOL_REGISTRY == label

\* mutant of add_function: the category of a registered tool is replaced by
\* the one given
add_function_SetsCategory(registry, tool_name, category, function_name, description) ==
    LET functions == IF tool_name \in DOMAIN registry THEN registry[tool_name].functions ELSE <<>>
    IN  (tool_name :> ToolEntry(category,
                                Append(functions, FunctionEntry(function_name, description))))
        @@ registry

\* add_function(tool_name, category, function_name, description): the
\* registry after the call
add_function(registry, tool_name, category, function_name, description) ==
    LET registered == IF tool_name \in DOMAIN registry THEN registry
                      ELSE (tool_name :> ToolEntry(category, <<>>)) @@ registry
    IN  [registered EXCEPT ![tool_name].functions =
            Append(@, FunctionEntry(function_name, description))]

\* sorted(): the tool names of the model in the order of their characters
SortedToolNames ==
    << "check_eda_env", "eda_crime_analysis", "eda_data_quality",
       "eda_feature_engineering", "eda_starter", "my_tool", "zip_tools" >>

\* list_tools(): one line per tool, in sorted order, with len(functions)
list_tools(registry) ==
    LET names == SelectSeq(SortedToolNames, LAMBDA t : t \in DOMAIN registry)
    IN  [k \in DOMAIN names |-> [tool |-> names[k], func_count |-> Len(registry[names[k]].functions)]]

\* what callers pass to add_function
ToolNames == {"eda_starter", "my_tool", "zip_tools"}

Categories == {"EDA Util", "Modeling"}

FunctionNames == {"my_func(df)", "set_styles()"}

InitRegistry ==
    /\ pc = "registry"
    /\ label = InitialRegistry
    /\ calls = <<>>
    /\ console = <<>>
    /\ report = <<>>
    /\ tasks = <<>>
    /\ idx = 1
    /\ results = <<>>
    /\ fs = FsFresh
    /\ oplog = <<>>

\* a call of add_function
AddFunction ==
    /\ pc = "registry"
    /\ Len(calls) < MaxCalls
    /\ \E tool_name \in ToolNames, category \in Categories, function_name \in FunctionNames :
          /\ TOOL_REGISTRY' = add_function(TOOL_REGISTRY, tool_name, category, function_name,
                                           "What the function does")
          /\ calls' = Append(calls, [tool_name |-> tool_name, category |-> category,
                                     function_name |-> function_name,
                                     description |-> "What the function does"])
          /\ console' = Append(console, [kind |-> "Added", function_name |-> function_name,
                                         tool_name |-> tool_name])
    /\ UNCHANGED <<pc, tasks, idx, results, fs, report, oplog>>

\* a call of list_tools
ListTools ==
    /\ pc = "registry"
    /\ report' = list_tools(TOOL_REGISTRY)
    /\ UNCHANGED <<pc, tasks, idx, results, fs, console, oplog, calls, label>>

RegistryNext == AddFunction \/ ListTools

RegistrySpec == InitRegistry /\ [][RegistryNext]_vars

(***************************************************************************)
(* gamma_grounds/dsc_project/config/paths.py: find_project_root.  A path   *)
(* is the tuple of its components, Path.parts, the root "/" first.  The    *)
(* working directory and what the call returned are held in the variable   *)
(* label, the directories and the pyproject.toml files in fs.              *)
(***************************************************************************)
\* most components of the working directory below the root
MaxDepth == 3

\* Path.parents: the ancestors, the nearest first
Parents(p) == [k \in 1..(Len(p) - 1) |-> SubSeq(p, 1, Len(p) - k)]

\* Path.parent: the root is its own parent
Parent(p) == IF Len(p) > 1 THEN SubSeq(p, 1, Len(p) - 1) ELSE p

\* Path.name: empty for the root
Name(p) == IF Len(p) > 1 THEN p[Len(p)] ELSE ""

\* (p / 'pyproject.toml').exists()
HasPyproject(fsys, p) == PathExists(fsys, p \o <<"pyproject.toml">>)

\* `for p in candidates: if (p / 'pyproject.toml').exists(): return p`: the
\* path returned, <<>> when the loop ends without a return
RECURSIVE FirstWithPyproject(_, _)
FirstWithPyproject(fsys, candidates) ==
    IF candidates = <<>> THEN <<>>
    ELSE IF HasPyproject(fsys, Head(candidates)) THEN Head(candidates)
    ELSE FirstWithPyproject(fsys, Tail(candidates))

\* lines 22-28: the standard check and the fallback
StandardCheck(fsys, current_path) ==
    LET found == FirstWithPyproject(fsys, <<current_path>> \o Parents(current_path))
    IN  IF found # <<>> THEN found ELSE current_path

\* mutant of find_project_root: without the check for notebooks
find_project_root_StandardOnly(fsys, current_path) == StandardCheck(fsys, current_path)

\* find_project_root(), with Path.cwd() = current_path
find_project_root(fsys, current_path) ==
    IF \E k \in DOMAIN current_path : current_path[k] = "notebooks"
    THEN LET found == FirstWithPyproject(fsys, Parents(current_path))
         IN  IF found # <<>> THEN found
             ELSE IF Name(current_path) = "notebooks" THEN Parent(current_path)
             ELSE StandardCheck(fsys, current_path)
    ELSE StandardCheck(fsys, current_path)

\* the names of the directories of the model
DirNames == {"proj", "notebooks", "eda"}

\* the working directories of the model
WorkingDirs == {<<"/">> \o below : below \in SeqsUpTo(DirNames, MaxDepth)}

\* the working directory and the directories above it
UpFrom(p) == {SubSeq(p, 1, k) : k \in 1..Len(p)}

PyprojectToml == File("text", <<>>, <<>>, <<>>, Bytes(500))

InitRoot ==
    /\ pc = "find"
    /\ \E cwd \in WorkingDirs : \E holders \in SUBSET UpFrom(cwd) :
          /\ label = [cwd |-> cwd, returned |-> <<>>]
          /\ fs = FileSystem(UpFrom(cwd),
                             [f \in {p \o <<"pyproject.toml">> : p \in holders} |-> PyprojectToml])
    /\ tasks = <<>>
    /\ idx = 1
    /\ results = <<>>
    /\ console = <<>>
    /\ report = <<>>
    /\ oplog = <<>>
    /\ calls = <<>>

\* line 31: PROJECT_ROOT = find_project_root()
FindProjectRoot ==
    /\ pc = "find"
    /\ label' = [label EXCEPT !.returned = find_project_root(fs, label.cwd)]
    /\ pc' = "found"
    /\ UNCHANGED <<tasks, idx, results, fs, console, report, oplog, calls>>

RootSpec == InitRoot /\ [][FindProjectRoot]_vars

(***************************************************************************)
(* tools/rename_raw_data.py: rename_files.  A folder is its path below     *)
(* RAW_DIR; a file name is the sequence of its parts and dots, so that     *)
(* "x.shp.xml" is <<"x", ".", "shp", ".", "xml">>; a file is at            *)
(* <<folder, name>>.  The variable idx counts the runs, calls holds what   *)
(* each run renamed and console what it printed.                           *)
(***************************************************************************)
\* most runs of rename_files, one directly after the other
MaxRuns == 2

\* lines 18-61: the mapping
renames ==
    << [dir |-> "apd_csv",
        old |-> <<"OpenDataWebsite_Crime_view_-1943907682062759239", ".", "csv">>,
        new |-> <<"apd_crime_2021_2024", ".", "csv">>],
       [dir |-> "apd_geojson",
        old |-> <<"OpenDataWebsite_Crime_view_8524236547521519883", ".", "geojson">>,
        new |-> <<"apd_crime_2021_2024", ".", "geojson">>],
       [dir |-> "apd_shapefile",
        old_stem |-> "AxonCrimeData_XYTable", new_stem |-> "apd_crime_2021_2024"],
       [dir |-> "shapefiles/apd_zone_2019",
        old_stem |-> "APD_Zone_2019", new_stem |-> "apd_police_zones_2019"],
       [dir |-> "shapefiles/area_landmark_2024",
        old_stem |-> "tl_2023_13_arealm", new_stem |-> "ga_census_landmarks_2023"],
       [dir |-> "shapefiles/atl_neighborhood",
        old_stem |-> "Official_Neighborhoods_-_Open_Data", new_stem |-> "atl_neighborhoods"],
       [dir |-> "shapefiles/atl_npu",
        old_stem |-> "Official_NPU_-_Open_Data", new_stem |-> "atl_npu_boundaries"],
       [dir |-> "shapefiles/census_boundary_2024",
        old_stem |-> "cb_2024_13_place_500k", new_stem |-> "ga_census_places_2024"] >>

\* the state a run of rename_files acts on: the filesystem, the lines
\* printed, the renames made (history) and the exception raised, if any
RenameWorld(fsys) == [fs |-> fsys, console |-> <<>>, renamed |-> {}, exc |-> "none"]

\* Path.rename(target): the file is moved, onto what is at the target
PathRename(w, dir, from, to) ==
    IF <<dir, from>> \notin DOMAIN w.fs.files
    THEN [w EXCEPT !.exc = "FileNotFoundError"]
    ELSE [w EXCEPT !.fs.files =
                      [p \in (DOMAIN @ \ {<<dir, from>>}) \cup {<<dir, to>>} |->
                          IF p = <<dir, to>> THEN @[<<dir, from>>] ELSE @[p]],
                   !.renamed = @ \cup {[dir |-> dir, from |-> from, to |-> to]}]

\* folder.glob(f"{old_stem}.*"): the names that begin with the stem and a dot
Glob(fsys, dir, old_stem) ==
    {p[2] : p \in {q \in DOMAIN fsys.files :
                      q[1] = dir /\ Len(q[2]) >= 2 /\ q[2][1] = old_stem /\ q[2][2] = "."}}

\* mutant of Replace: the new name is the new stem alone
Replace_DropsTheRest(name, old_stem, new_stem) == <<new_stem>>

\* f.name.replace(old_stem, new_stem): every occurrence is replaced
Replace(name, old_stem, new_stem) ==
    [k \in DOMAIN name |-> IF name[k] = old_stem THEN new_stem ELSE name[k]]

\* lines 69-76: a single-file entry
RenameSingle(w, task) ==
    IF <<task.dir, task.old>> \in DOMAIN w.fs.files
    THEN [PathRename(w, task.dir, task.old, task.new)
            EXCEPT !.console = Append(@, [kind |-> "Renamed", what |-> task.old])]
    ELSE [w EXCEPT !.console = Append(@, [kind |-> "Skipped (Not found)", what |-> task.old])]

\* lines 90-94: the loop over found_files, in whatever order glob gave
\* them: the worlds it can end in
RECURSIVE RenameEach(_, _, _)
RenameEach(w, task, found) ==
    IF found = {} \/ w.exc # "none" THEN {w}
    ELSE UNION {RenameEach(PathRename(w, task.dir, f, Replace(f, task.old_stem, task.new_stem)),
                           task, found \ {f}) : f \in found}

\* lines 79-96: a stem entry
RenameGroup(w, task) ==
    IF task.dir \notin w.fs.dirs THEN {w}
    ELSE IF Glob(w.fs, task.dir, task.old_stem) = {}
    THEN {[w EXCEPT !.console = Append(@, [kind |-> "No files found", what |-> <<task.old_stem>>])]}
    ELSE {IF x.exc # "none" THEN x
          ELSE [x EXCEPT !.console = Append(@, [kind |-> "Renamed Group", what |-> <<task.old_stem>>])] :
             x \in RenameEach(w, task, Glob(w.fs, task.dir, task.old_stem))}

\* lines 65-96: the loop over the entries from the k-th on
RECURSIVE RenameFrom(_, _)
RenameFrom(ws, k) ==
    IF k > Len(renames) THEN ws
    ELSE RenameFrom(UNION {IF w.exc # "none" THEN {w}
                           ELSE IF "old" \in DOMAIN renames[k] THEN {RenameSingle(w, renames[k])}
                           ELSE IF "old_stem" \in DOMAIN renames[k] THEN RenameGroup(w, renames[k])
                           ELSE {w} : w \in ws},
                    k + 1)

\* rename_files(): the worlds a run can end in
rename_files(fsys) == RenameFrom({RenameWorld(fsys)}, 1)

\* a file of the raw data, known by where it was downloaded to
RawFile(dir, name) == [kind |-> "raw", origin |-> <<dir, name>>]

\* what may be in data/raw/apd_csv, in data/raw/apd_shapefile and in
\* data/raw/shapefiles/apd_zone_2019 before the first run: downloads under
\* their old names, files that have the new names already, a file whose
\* name repeats the stem, and a file that has nothing to do with it
CsvNames == {renames[1].old, renames[1].new}

ShapefileNames ==
    { <<"AxonCrimeData_XYTable", ".", "shp">>,
      <<"AxonCrimeData_XYTable", ".", "dbf">>,
      <<"AxonCrimeData_XYTable", ".", "shp", ".", "xml">>,
      <<"AxonCrimeData_XYTable", ".", "AxonCrimeData_XYTable", ".", "shx">>,
      <<"apd_crime_2021_2024", ".", "shp">>,
      <<"readme", ".", "txt">> }

ZoneNames == { <<"APD_Zone_2019", ".", "shp">>, <<"APD_Zone_2019_old", ".", "shp">> }

\* a folder with the files named, or no folder at all
Folder(dir, there, names) ==
    IF ~there THEN FileSystem({}, <<>>)
    ELSE FileSystem({dir}, [p \in {<<dir, n>> : n \in names} |-> RawFile(dir, p[2])])

\* the folders there can be: none, or one with some of the names
Contents(names) == {<<FALSE, {}>>} \cup {<<TRUE, n>> : n \in SUBSET names}

Merge(f, g) == FileSystem(f.dirs \cup g.dirs, f.files @@ g.files)

RawFilesystems ==
    {Merge(Folder("apd_csv", a[1], a[2]),
           Merge(Folder("apd_shapefile", b[1], b[2]),
                 Folder("shapefiles/apd_zone_2019", c[1], c[2]))) :
        a \in Contents(CsvNames),
        b \in Contents(ShapefileNames),
        c \in Contents(ZoneNames)}

InitRename ==
    /\ pc = "rename"
    /\ fs \in RawFilesystems
    /\ idx = 1
    /\ calls = <<>>
    /\ console = <<>>
    /\ tasks = <<>>
    /\ results = <<>>
    /\ report = <<>>
    /\ oplog = <<>>
    /\ label = ""

\* line 99: a run of rename_files
RenameFiles ==
    /\ pc = "rename"
    /\ idx <= MaxRuns
    /\ \E out \in rename_files(fs) :
          /\ fs' = out.fs
          /\ console' = out.console
          /\ calls' = Append(calls, [run |-> idx, renamed |-> out.renamed])
          /\ pc' = IF out.exc = "none" THEN "rename" ELSE "crashed"
    /\ idx' = idx + 1
    /\ UNCHANGED <<tasks, results, report, oplog, label>>

RenameSpec == InitRename /\ [][RenameFiles]_vars

(***************************************************************************)
(* The claims.                                                             *)
(***************************************************************************)
Success == "[green]Success[/green]"

Failed == "[red]Failed[/red]"

\* the result r names the files of the task
BelongsTo(r, task) == r.input = PathName(task[1]) /\ r.output = PathName(task[2])

\* the positions of tasks for which infer_and_run_conversion was called
Called == {calls[k].task : k \in DOMAIN calls}

\* C1 as stated: a batch run over N tasks returns exactly N results, the
\* i-th result belonging to the i-th task; no task is dropped.
C1_OneResultPerTask ==
    pc = "done" =>
        /\ Len(results) = Len(tasks)
        /\ \A i \in DOMAIN tasks : BelongsTo(results[i], tasks[i])

\* the results are those of the calls made, in the order of the tasks
C1_ResultsFollowCalls ==
    pc \in {"loop", "done"} =>
        /\ Len(results) = Len(calls)
        /\ \A k \in DOMAIN calls :
              calls[k].task < idx /\ BelongsTo(results[k], tasks[calls[k].task])
        /\ \A j, k \in DOMAIN calls : j < k => calls[j].task < calls[k].task

\* an iteration appends no result when the input neither exists nor has
\* "missing" in its path, and exactly one result, of its task, otherwise
C1_IterationAppendsOne ==
    (pc = "loop" /\ idx <= Len(tasks)) =>
        /\ idx' = idx + 1
        /\ IF tasks[idx][1] \notin (fs.dirs \cup DOMAIN fs.files)
              /\ ~Contains(tasks[idx][1], "missing")
           THEN results' = results
           ELSE /\ Len(results') = Len(results) + 1
                /\ SubSeq(results', 1, Len(results)) = results
                /\ BelongsTo(results'[Len(results')], tasks[idx])

\* C1 as amended: the batch returns exactly one result for every task it
\* does not skip, in input order, and none for a task it skips; it skips a
\* task exactly when the task's input does not exist as the loop reaches it
\* and the input path does not contain "missing".
C1_OneResultPerTaskNotSkipped ==
    [](C1_ResultsFollowCalls) /\ [][C1_IterationAppendsOne]_vars

\* a finished run of the list of __main__ in which a task was skipped
C1_Witness ==
    /\ pc = "done"
    /\ tasks = MainTasks
    /\ Len(results) = 4
    /\ Called = {1, 2, 4, 5}

\* C2: no error escapes a task: whatever fails while a converter creates
\* the output directory, loads the input or writes the output, the call of
\* infer_and_run_conversion returns, and returns a Failure result.
C2_NoErrorEscapes ==
    /\ pc # "crashed"
    /\ \A k \in DOMAIN calls :
          /\ calls[k].raised = "none"
          /\ k \in DOMAIN results
          /\ calls[k].err.type # "none" => results[k].status = Failed

\* a finished run with a failure at each of the three steps
C2_Witness ==
    /\ pc = "done"
    /\ \E i, j, k \in DOMAIN calls :
          /\ calls[i].err.stage = "mkdir"
          /\ calls[j].err.stage = "load"
          /\ calls[k].err.stage = "write"
          /\ calls[j].err.type \notin {"FileNotFoundError", "OSError"}

\* the five pairs of extensions, as the claims list them
RegisteredPairs ==
    { <<".csv", ".xlsx">>, <<".xlsx", ".csv">>, <<".csv", ".parquet">>,
      <<".parquet", ".csv">>, <<".numbers", ".csv">> }

\* the pair of lowercased final suffixes of a task's or a call's two paths
PairOf(input, output) == <<lower(PathSuffix(input)), lower(PathSuffix(output))>>

Unregistered(task) == PairOf(task[1], task[2]) \notin RegisteredPairs

NoConverterMessage == "No valid converter found for format pair"

\* C3 as stated: a task whose pair of extensions is not registered yields a
\* Failure result whose error message is exactly "No valid converter found
\* for format pair".
C3_ResultCarriesMessage ==
    \A k \in DOMAIN calls :
        (k \in DOMAIN results /\ Unregistered(<<calls[k].input, calls[k].output>>)) =>
            /\ results[k].status = Failed
            /\ \E f \in DOMAIN results[k] : results[k][f] = NoConverterMessage

\* C3 as amended: a call of infer_and_run_conversion whose pair of extensions
\* is not registered returns a Failure result and prints the line "Failed:
\* <input name> (No valid converter found for format pair)"; the result
\* itself has the fields status, input, output, type, size and time, the
\* last three "-", and holds no error message.
C3_MessagePrintedNotReturned ==
    \A k \in DOMAIN calls :
        (k \in DOMAIN results /\ k \in DOMAIN console
         /\ Unregistered(<<calls[k].input, calls[k].output>>)) =>
            /\ results[k] = [status |-> Failed,
                             input |-> PathName(calls[k].input),
                             output |-> PathName(calls[k].output),
                             type |-> "-", size |-> "-", time |-> "-"]
            /\ console[k] = [kind |-> "Failed", input |-> PathName(calls[k].input),
                             output |-> "", error |-> NoConverterMessage]

\* a finished run in which the pair .txt -> .yaml was handled
C3_Witness ==
    /\ pc = "done"
    /\ \E k \in DOMAIN calls :
          /\ PairOf(calls[k].input, calls[k].output) = <<".txt", ".yaml">>
          /\ results[k].status = Failed
          /\ console[k].error = NoConverterMessage

\* C4 as stated: handling a task with an unregistered pair leaves the
\* filesystem unchanged and unread; not even the existence of the input is
\* tested.
C4_FilesystemUnread ==
    [][(pc = "loop" /\ idx <= Len(tasks) /\ Unregistered(tasks[idx])) =>
          (fs' = fs /\ oplog' = oplog)]_vars

\* C4 as amended: handling a task with an unregistered pair leaves the
\* filesystem unchanged: no directory is created and no file is opened,
\* created, modified or deleted; the only access is the batch loop's test
\* whether the input exists, made once, before the task is skipped or passed
\* to infer_and_run_conversion, which itself makes none.
C4_OnlyExistenceTested ==
    [][(pc = "loop" /\ idx <= Len(tasks) /\ Unregistered(tasks[idx])) =>
          /\ fs' = fs
          /\ oplog' = Append(oplog, [task |-> idx, op |-> "exists", path |-> tasks[idx][1]])]_vars

\* a finished run with two unregistered tasks passed to
\* infer_and_run_conversion, the input of one existing, of the other not
C4_Witness ==
    /\ pc = "done"
    /\ \E j, k \in DOMAIN calls :
          /\ Unregistered(<<calls[j].input, calls[j].output>>)
          /\ Unregistered(<<calls[k].input, calls[k].output>>)
          /\ calls[j].input \in DOMAIN fs.files
          /\ calls[k].input \notin DOMAIN fs.files

\* the converter of each of the five pairs
ConverterOf(pair) ==
    CASE pair = <<".csv", ".xlsx">>    -> "csv_to_xlsx"
      [] pair = <<".xlsx", ".csv">>    -> "xlsx_to_csv"
      [] pair = <<".csv", ".parquet">> -> "csv_to_parquet"
      [] pair = <<".parquet", ".csv">> -> "parquet_to_csv"
      [] pair = <<".numbers", ".csv">> -> "numbers_to_csv"

\* C5: at every call, whatever the earlier calls, the pairs that resolve to
\* a converter are exactly the five registered ones, each to its own
\* converter; for every other pair, chained and identity pairs included, no
\* converter is invoked.
C5_ExactlyFivePairs ==
    \A k \in DOMAIN calls :
        LET pair == PairOf(calls[k].input, calls[k].output)
        IN  IF pair \in RegisteredPairs
            THEN calls[k].converter = ConverterOf(pair)
            ELSE calls[k].converter = "None"

\* .csv -> .xlsx was converted, then .xlsx -> .parquet on its output found
\* no converter
C5_Witness ==
    /\ pc = "done"
    /\ Len(calls) = 2
    /\ calls[1].converter = "csv_to_xlsx"
    /\ results[1].status = Success
    /\ PairOf(calls[2].input, calls[2].output) = <<".xlsx", ".parquet">>
    /\ calls[2].input = calls[1].output
    /\ calls[2].converter = "None"

\* C6: the lookup is case-insensitive on both extensions: two calls whose
\* paths have the same lowercased final suffixes select the same converter.
C6_CaseInsensitiveLookup ==
    \A j, k \in DOMAIN calls :
        PairOf(calls[j].input, calls[j].output) = PairOf(calls[k].input, calls[k].output)
            => calls[j].converter = calls[k].converter

\* DATA.CSV -> out.XLSX and sample.csv -> smart_sample.xlsx in one run
C6_Witness ==
    /\ pc = "done"
    /\ \E j, k \in DOMAIN calls :
          /\ PathName(calls[j].input) = "DATA.CSV"
          /\ PathName(calls[j].output) = "out.XLSX"
          /\ PathSuffix(calls[k].input) = ".csv"
          /\ PathSuffix(calls[k].output) = ".xlsx"
          /\ calls[j].converter = "csv_to_xlsx"
          /\ calls[k].converter = "csv_to_xlsx"

\* the paths that exist in a filesystem
Existing(fsys) == fsys.dirs \cup DOMAIN fsys.files

\* C7 as stated: a task with a registered pair whose input does not exist
\* yields a Failure result with a non-empty error message, and no file
\* exists at the output path as a result of the task.
C7_MissingInputFails ==
    pc = "done" =>
        \A i \in DOMAIN tasks :
            (~Unregistered(tasks[i]) /\ tasks[i][1] \notin Existing(fs)) =>
                /\ \E k \in DOMAIN calls :
                      /\ calls[k].task = i
                      /\ results[k].status = Failed
                      /\ console[k].error # ""
                /\ tasks[i][2] \notin DOMAIN fs.files

\* an iteration over a task with a registered pair whose input does not exist
C7_Iteration ==
    (pc = "loop" /\ idx <= Len(tasks) /\ ~Unregistered(tasks[idx])
     /\ tasks[idx][1] \notin Existing(fs)) =>
        IF Contains(tasks[idx][1], "missing")
        THEN /\ Len(results') = Len(results) + 1
             /\ results'[Len(results')].status = Failed
             /\ \A f \in DOMAIN results'[Len(results')] : results'[Len(results')][f] # ""
             /\ Len(console') = Len(console) + 1
             /\ console'[Len(console')].kind = "Failed"
             /\ console'[Len(console')].error # ""
             /\ DOMAIN fs'.files = DOMAIN fs.files
             /\ \A p \in DOMAIN fs.files : fs'.files[p] = fs.files[p]
        ELSE results' = results /\ console' = console /\ fs' = fs

\* C7 as amended: a task with a registered pair whose input does not exist
\* is passed to its converter only when the input path contains "missing";
\* the converter then returns a Failure result and prints a non-empty error
\* message (the result itself holds none), and creates or changes no file,
\* the output included; it may have created the output directory.  Any other
\* task whose input does not exist is skipped: no result, nothing printed,
\* the filesystem unchanged.
C7_MissingInputFailsOrIsSkipped == [][C7_Iteration]_vars

\* csv_to_xlsx was given an input that does not exist and has failed at
\* the load, with the output directory created
C7_Witness ==
    \E k \in DOMAIN calls :
        /\ k \in DOMAIN results
        /\ calls[k].converter = "csv_to_xlsx"
        /\ calls[k].err.type = "FileNotFoundError"
        /\ calls[k].input \notin Existing(fs)
        /\ calls[k].err.stage = "load"
        /\ results[k].status = Failed
        /\ calls[k].output \notin DOMAIN fs.files
        /\ \E j \in DOMAIN oplog : oplog[j].task = calls[k].task /\ oplog[j].op = "mkdir"

\* C8 as stated, in its final result: when the batch has finished, every
\* task after one that ended in Failure has been attempted.
C8_LaterTasksAttempted ==
    pc = "done" =>
        \A k \in DOMAIN results :
            results[k].status = Failed =>
                \A i \in DOMAIN tasks : i > calls[k].task => i \in Called

\* every task has been reached by the loop: its input tested for existence
AllTasksReached ==
    \A i \in DOMAIN tasks : \E j \in DOMAIN oplog : oplog[j].task = i /\ oplog[j].op = "exists"

\* C8 as amended: no task's failure aborts the batch: once a task has ended
\* in Failure, the loop still reaches every later task, which is converted
\* or, when its input does not exist and its path does not contain
\* "missing", skipped without an attempt, and the batch eventually finishes
\* with the report built, one row per result.
C8_FailureDoesNotAbort ==
    (\E k \in DOMAIN results : results[k].status = Failed)
        ~> (pc = "done" /\ AllTasksReached /\ idx = Len(tasks) + 1
            /\ Len(report) = Len(results)
            /\ \A k \in DOMAIN results : report[k][1] = results[k].status)

\* a finished batch in which a Failure is followed by a Success
C8_Witness ==
    /\ pc = "done"
    /\ Len(report) = Len(results)
    /\ \E j, k \in DOMAIN results :
          /\ j < k
          /\ results[j].status = Failed
          /\ calls[j].err.type # "none"
          /\ results[k].status = Success

\* the runs that convert a table A -> B and then B -> A
RoundTrips == {RoundTripCsvXlsx, RoundTripCsvParquet, RoundTripXlsxCsv, RoundTripParquetCsv}

\* a round trip has finished, both conversions a Success
RoundTripDone ==
    /\ pc = "done"
    /\ tasks \in RoundTrips
    /\ Len(results) = 2
    /\ results[1].status = Success
    /\ results[2].status = Success

\* the file the round trip started from, and the file it ended in
Source == fs.files[tasks[1][1]]

Back == fs.files[tasks[2][2]]

\* a cell of a file, read leniently: a number whatever its spelling or
\* type, a missing value whatever its marker, or a text
Lenient(f, r, k) ==
    LET x == f.rows[r][k]
    IN  IF f.kind = "csv"
        THEN IF x \in IntTokens \cup FloatTokens THEN <<"number", NumberOf(x)>>
             ELSE IF x \in NaTokens THEN <<"missing">>
             ELSE <<"text", x>>
        ELSE CASE x.t \in {"int", "float", "num"} -> <<"number", x.n>>
               [] x.t \in {"nan", "empty"} -> <<"missing">>
               [] x.s \in IntTokens \cup FloatTokens -> <<"number", NumberOf(x.s)>>
               [] OTHER -> <<"text", x.s>>

\* the name of the k-th column of a file
NameOf(f, k) == IF f.kind = "xlsx" THEN XlsxName(f.header[k]) ELSE f.header[k]

\* C9 as stated: converting a table A -> B and then B -> A yields a table
\* with the same column names in the same order and the same cell values
\* (numbers compared as numbers, missing values as missing).
C9_RoundTrip ==
    RoundTripDone =>
        /\ Len(Back.header) = Len(Source.header)
        /\ \A k \in DOMAIN Source.header : NameOf(Back, k) = NameOf(Source, k)
        /\ Len(Back.rows) = Len(Source.rows)
        /\ \A r \in DOMAIN Source.rows : \A k \in DOMAIN Source.header :
              Lenient(Back, r, k) = Lenient(Source, r, k)

\* integers as to_csv writes them
PlainIntegers == {"1", "2", "3", "4", "7"}

\* a table the amended claim covers: the column names are texts, none
\* empty, no two the same, and every cell is an integer in its plain form
Regular(f) ==
    /\ \A k \in DOMAIN f.header : NameOf(f, k) # ""
    /\ \A j, k \in DOMAIN f.header : j # k => NameOf(f, k) # NameOf(f, j)
    /\ \A r \in DOMAIN f.rows : \A k \in DOMAIN f.header :
          CASE f.kind = "csv"     -> f.rows[r][k] \in PlainIntegers
            [] f.kind = "xlsx"    -> f.rows[r][k].t = "num"
            [] f.kind = "parquet" -> f.rows[r][k].t = "int"
            [] OTHER -> FALSE
    /\ f.kind = "xlsx" => \A k \in DOMAIN f.header : f.header[k].t = "str"

\* C9 as amended: for csv <-> xlsx and csv <-> parquet, when both
\* conversions succeed and the table has distinct, non-empty text column
\* names and only integer cells in plain decimal form (no leading zeros, no
\* missing values), A -> B -> A yields the same column names in the same
\* order and the same cells; in particular sample.csv with header a,b and
\* rows (1,3),(2,4) converted to .xlsx and back to .csv yields header a,b
\* and rows 1,3 and 2,4.
C9_RoundTripOfRegularTables ==
    (RoundTripDone /\ Regular(Source)) =>
        /\ Back.kind = Source.kind
        /\ Back.header = Source.header
        /\ Back.rows = Source.rows
        /\ (tasks = RoundTripCsvXlsx /\ Source.header = <<"a", "b">>
            /\ Source.rows = << <<"1", "3">>, <<"2", "4">> >>)
              => (Back.header = <<"a", "b">> /\ Back.rows = << <<"1", "3">>, <<"2", "4">> >>)

\* sample.csv as __main__ writes it has gone to .xlsx and back
C9_Witness ==
    /\ RoundTripDone
    /\ tasks = RoundTripCsvXlsx
    /\ Source = SampleCsv
    /\ Regular(Source)
    /\ fs.files[tasks[1][2]].kind = "xlsx"
    /\ Back.rows = << <<"1", "3">>, <<"2", "4">> >>

\* the five units, and the st_size of the file that was measured
UnitNames == <<"B", "KB", "MB", "GB", "TB">>

Measured == fs.files[sample_csv].size

\* the position of the leading base-1024 digit of n bytes: 1 when n < 1024
Leading(d) ==
    IF \A j \in DOMAIN d : d[j] = 0 THEN 1
    ELSE CHOOSE j \in DOMAIN d : d[j] # 0 /\ \A i \in (j + 1)..Len(d) : d[i] = 0

\* t tenths is n bytes, in the unit of n's leading digit, rounded to one
\* decimal place: within half a tenth of the value, a tie going to the even
\* tenth.  The value is taken from the two leading digits; what the digits
\* below them add is less than 1/1024 of the unit.
RoundsTo(d, t) ==
    LET top  == Leading(d)
        hi   == d[top]
        lo   == IF top > 1 THEN d[top - 1] ELSE 0
        more == \E j \in 1..(top - 2) : d[j] # 0
        m    == 1024 * t - 10 * (1024 * hi + lo)
    IN  IF more THEN -512 < m /\ m < 522
        ELSE (-512 < m /\ m < 512) \/ (m \in {-512, 512} /\ t % 2 = 0)

\* C10: for an existing file of n bytes get_file_size divides by 1024 only
\* while the value is >= 1024, stops at the first of B, KB, MB, GB in which
\* the value is < 1024 and reports TB otherwise, and prints the value with
\* one decimal place and the unit; 500 bytes gives "500.0 B", 2048 bytes
\* "2.0 KB", and the unit is B exactly when n < 1024.
C10_SizeLabel ==
    (pc = "sized" /\ sample_csv \in DOMAIN fs.files) =>
        LET d    == Measured
            unit == UnitNames[Leading(d)]
        IN  /\ \E t \in (10 * d[Leading(d)])..(10 * d[Leading(d)] + 10) :
                  /\ RoundsTo(d, t)
                  /\ label = ToString(t \div 10) \o "." \o ToString(t % 10) \o " " \o unit
            /\ d = <<500, 0, 0, 0, 0>> => label = "500.0 B"
            /\ d = <<0, 2, 0, 0, 0>> => label = "2.0 KB"
            /\ (unit = "B") <=> (\A j \in 2..Len(d) : d[j] = 0)
            /\ (\A j \in 2..Len(d) : d[j] = 0) => label = ToString(d[1]) \o ".0 B"

\* a file of 2048 bytes was measured
C10_Witness ==
    /\ pc = "sized"
    /\ sample_csv \in DOMAIN fs.files
    /\ Measured = <<0, 2, 0, 0, 0>>
    /\ label = "2.0 KB"

\* the call made by the step that has just been taken, and its result
LastCall == calls'[Len(calls')]

LastResult == results'[Len(results')]

\* the loop is at a task that it passes to the converter c
Converting(c) ==
    /\ pc = "loop" /\ idx <= Len(tasks)
    /\ Len(calls') = Len(calls) + 1
    /\ LastCall.converter = c

\* the input of the task at hand is a Numbers document whose first table of
\* the first sheet yields no rows
ZeroRowSource ==
    /\ tasks[idx][1] \in DOMAIN fs.files
    /\ fs.files[tasks[idx][1]].kind = "numbers"
    /\ fs.files[tasks[idx][1]].rows = <<>>

\* a file of zero bytes: no header line, no rows
ZeroByteFile(f) ==
    /\ f.header = <<>>
    /\ f.rows = <<>>
    /\ \A j \in DOMAIN f.size : f.size[j] = 0

\* C11 as stated: numbers_to_csv on a source whose first table of the first
\* sheet yields zero rows returns a Success result and leaves an empty
\* (zero-byte) file at the output path, not a header-only CSV; failures of
\* the environment (a directory that cannot be made, a read that fails, a
\* file that cannot be created) set aside.
C11_ZeroRowsGiveEmptyFile ==
    [][(Converting("numbers_to_csv") /\ ZeroRowSource /\ LastCall.err.type = "none") =>
          /\ Len(results') = Len(results) + 1
          /\ LastResult.status = Success
          /\ tasks[idx][2] \in DOMAIN fs'.files
          /\ ZeroByteFile(fs'.files[tasks[idx][2]])]_vars

\* C12: every Failure result, from an unregistered pair or from a
\* converter's caught error, has "-" in its type, size and time fields and
\* names the input file; no Success result has "-" in any of the three.
C12_DashesExactlyOnFailure ==
    \A k \in DOMAIN results :
        /\ results[k].status \in {Success, Failed}
        /\ results[k].status = Failed =>
              /\ results[k].type = "-" /\ results[k].size = "-" /\ results[k].time = "-"
              /\ results[k].input = PathName(calls[k].input)
        /\ results[k].status = Success =>
              /\ results[k].type # "-" /\ results[k].size # "-" /\ results[k].time # "-"

\* a finished run with a Failure for an unregistered pair, a Failure from a
\* converter's caught error and a Success
C12_Witness ==
    /\ pc = "done"
    /\ \E i, j, k \in DOMAIN results :
          /\ results[i].status = Failed /\ calls[i].converter = "None"
          /\ results[j].status = Failed /\ calls[j].converter # "None"
          /\ calls[j].err.type # "none"
          /\ results[k].status = Success
          /\ results[k].type = ".XLSX"

\* the six fields of a result record
ResultFields == {"status", "input", "output", "type", "size", "time"}

\* the error description captured for a call: str(e) of what a converter
\* caught, or the fixed text of infer_and_run_conversion
Described(k) ==
    IF calls[k].converter = "None" THEN NoConverterMessage ELSE calls[k].err.msg

HoldsMessage(r, text) == \E f \in DOMAIN r : r[f] = text

\* C13 as stated: a result record carries an error message if and only if
\* its status is Failure: every Failure result holds the captured error
\* description, and no Success result holds one.
C13_MessageIffFailure ==
    \A k \in DOMAIN results :
        /\ results[k].status = Failed => HoldsMessage(results[k], Described(k))
        /\ results[k].status = Success => DOMAIN results[k] = ResultFields

\* C13 as amended: no result record carries an error message, a Failure no
\* more than a Success: a record has the six fields status, input, output,
\* type, size and time.  The captured error description, str(e) of what the
\* converter caught or the fixed text for an unregistered pair, is printed
\* by log_error in the line "Failed: <input name> (<description>)", once,
\* if and only if the status is Failure; a Success prints a line without
\* one.
C13_MessagePrintedIffFailure ==
    \A k \in DOMAIN results :
        /\ DOMAIN results[k] = ResultFields
        /\ ~HoldsMessage(results[k], Described(k))
        /\ Len(console) = Len(results)
        /\ results[k].status = Failed <=> console[k].kind = "Failed"
        /\ results[k].status = Failed =>
              /\ console[k].error = Described(k)
              /\ console[k].input = results[k].input
        /\ results[k].status = Success =>
              /\ console[k].kind = "converted"
              /\ console[k].error = ""
              /\ calls[k].err.type = "none"

\* a finished run in which a converter caught a parser error, printed its
\* description and returned a Failure, and another returned a Success
C13_Witness ==
    /\ pc = "done"
    /\ \E j, k \in DOMAIN results :
          /\ results[j].status = Failed
          /\ calls[j].err.type = "BadZipFile"
          /\ console[j].error = "File is not a zip file"
          /\ results[k].status = Success

\* C14 as stated: on a Failure result the format label, the size label and
\* the duration label are each empty.
C14_LabelsEmptyOnFailure ==
    \A k \in DOMAIN results :
        results[k].status = Failed =>
            results[k].type = "" /\ results[k].size = "" /\ results[k].time = ""

\* C14 as amended: on a Failure result the format label (type), the size
\* label and the duration label (time) are each the dash placeholder "-",
\* not the empty string, and the report shows "-" in the Type, Size and Time
\* columns of the row.
C14_LabelsAreDashesOnFailure ==
    \A k \in DOMAIN results :
        results[k].status = Failed =>
            /\ \A f \in {"type", "size", "time"} : results[k][f] = "-" /\ results[k][f] # ""
            /\ pc = "done" => <<report[k][4], report[k][5], report[k][6]>> = <<"-", "-", "-">>

\* the report of a finished run has a row of a failed task
C14_Witness ==
    /\ pc = "done"
    /\ \E k \in DOMAIN report :
          /\ report[k][1] = Failed
          /\ report[k][4] = "-"
          /\ results[k].time = "-"

\* the filesystem operations of the step that has just been taken
LastOps == SubSeq(oplog', Len(oplog) + 1, Len(oplog'))

\* the step that has just been taken returned a Success for the task at hand
ReturnsSuccess ==
    /\ pc = "loop" /\ idx <= Len(tasks)
    /\ Len(results') = Len(results) + 1
    /\ LastResult.status = Success

\* the step wrote or touched the output of the task at hand, without an
\* exception, as the last thing it did to the filesystem
WriteStepCompleted ==
    /\ LastCall.err.type = "none"
    /\ \E j \in DOMAIN LastOps :
          /\ LastOps[j].op \in {"write", "touch"}
          /\ LastOps[j].path = tasks[idx][2]
          /\ \A i \in (j + 1)..Len(LastOps) : LastOps[i].op \in {"exists", "stat"}

\* C15 as stated: a result with status Success implies that, when the
\* converter returned, a file existed at the task's output path; no
\* converter returns Success without having completed its write step or,
\* for an empty Numbers source, the touch of the output file.
C15_SuccessMeansOutputFile ==
    [][ReturnsSuccess =>
          /\ WriteStepCompleted
          /\ tasks[idx][2] \in DOMAIN fs'.files]_vars

\* the directories above a path, up to the working directory
RECURSIVE Ancestors(_)
Ancestors(p) ==
    IF PathParent(p) = Cwd THEN {Cwd} ELSE {PathParent(p)} \cup Ancestors(PathParent(p))

\* the kind of file each converter loads
InputKind(c) ==
    CASE c \in {"csv_to_xlsx", "csv_to_parquet"} -> "csv"
      [] c = "xlsx_to_csv"    -> "xlsx"
      [] c = "parquet_to_csv" -> "parquet"
      [] c = "numbers_to_csv" -> "numbers"

\* the input of the task at hand is a file its converter c can load
ValidInput(c) ==
    /\ tasks[idx][1] \in DOMAIN fs.files
    /\ fs.files[tasks[idx][1]].kind = InputKind(c)
    /\ c \in {"csv_to_xlsx", "csv_to_parquet"} => fs.files[tasks[idx][1]].header # <<>>

\* a step in which a converter is called: the first thing the converter does
\* to the filesystem is the mkdir of the output's parent, and only after it
\* come the read and the write; unless that mkdir raised, every directory
\* above the output exists afterwards; the mkdir does not raise for a
\* directory that is missing, only where a file stands in the way or the
\* system refuses; and into a directory that did not exist, a valid input is
\* converted with Success unless the system refuses an operation.
C16_Iteration ==
    (pc = "loop" /\ idx <= Len(tasks) /\ Len(calls') = Len(calls) + 1
     /\ LastCall.converter # "None") =>
        /\ Len(LastOps) >= 2
        /\ LastOps[1].op = "exists"
        /\ LastOps[2] = [task |-> idx, op |-> "mkdir", path |-> PathParent(tasks[idx][2])]
        /\ \A j \in 3..Len(LastOps) : LastOps[j].op # "mkdir"
        /\ LastCall.err.stage # "mkdir" => Ancestors(tasks[idx][2]) \subseteq fs'.dirs
        /\ LastCall.err.stage = "mkdir" =>
              /\ Len(LastOps) = 2
              /\ LastCall.err.type \in {"FileExistsError", "NotADirectoryError", "PermissionError"}
              /\ LastCall.err.type \in {"FileExistsError", "NotADirectoryError"} =>
                    \E d \in Ancestors(tasks[idx][2]) : d \in DOMAIN fs.files
        /\ (PathParent(tasks[idx][2]) \notin fs.dirs /\ ValidInput(LastCall.converter)
            /\ \A d \in Ancestors(tasks[idx][2]) : d \notin DOMAIN fs.files) =>
              \/ /\ LastResult.status = Success
                 /\ tasks[idx][2] \in DOMAIN fs'.files
              \/ /\ LastResult.status = Failed
                 /\ LastCall.err.type \in {"PermissionError", "OSError"}

\* C16: in every converter the output's parent directory is ensured to
\* exist, all missing intermediate directories created, before the input is
\* loaded and before the output is written; a conversion into a nested
\* directory that does not exist yet succeeds when the input is valid.
C16_ParentEnsuredFirst == [][C16_Iteration]_vars

\* sample.csv was converted into data/out/nested, neither data/out nor
\* data/out/nested existing before: both were made, then the input read,
\* then the output written
C16_Witness ==
    /\ pc = "done"
    /\ tasks = NestedTasks
    /\ results[1].status = Success
    /\ {"data/out", "data/out/nested"} \subseteq fs.dirs
    /\ \E i, j, k \in DOMAIN oplog :
          /\ i < j /\ j < k
          /\ oplog[i] = [task |-> 1, op |-> "mkdir", path |-> "data/out/nested"]
          /\ oplog[j] = [task |-> 1, op |-> "read", path |-> "data/sample.csv"]
          /\ oplog[k] = [task |-> 1, op |-> "write", path |-> "data/out/nested/sample.xlsx"]

\* the table a converter c loads from the input, as the DataFrame it writes
LoadedFrame(c, fsys, input) ==
    CASE c \in {"csv_to_xlsx", "csv_to_parquet"} -> read_csv(fsys, input).df
      [] c = "xlsx_to_csv"    -> read_excel(fsys, input).df
      [] c = "parquet_to_csv" -> read_parquet(fsys, input).df
      [] c = "numbers_to_csv" -> DataFrameOf(numbers_rows(fsys, input).data)

\* a value of a DataFrame, read as leniently as Lenient reads a cell
ValueView(v) ==
    CASE v.t \in {"int", "float", "num"} -> <<"number", v.n>>
      [] v.t \in {"nan", "empty"} -> <<"missing">>
      [] v.s \in IntTokens \cup FloatTokens -> <<"number", NumberOf(v.s)>>
      [] OTHER -> <<"text", v.s>>

\* the step that has just been taken wrote the output of the task at hand
\* and returned a Success
WroteOutput ==
    /\ ReturnsSuccess
    /\ \E j \in DOMAIN LastOps : LastOps[j].op = "write" /\ LastOps[j].path = tasks[idx][2]

Compared == pc = "compared"

\* both runs gave the task at position i the same result and left the same
\* thing at its output path
SameOutcome(i) ==
    /\ label.alt.rets[i] = label.seq.rets[i]
    /\ tasks[i][2] \in DOMAIN label.alt.fs.files <=> tasks[i][2] \in DOMAIN label.seq.fs.files
    /\ tasks[i][2] \in DOMAIN label.seq.fs.files =>
          label.alt.fs.files[tasks[i][2]] = label.seq.fs.files[tasks[i][2]]

DisjointPaths(ts) ==
    \A i, j \in DOMAIN ts :
        i # j => ({ts[i][2]} \cup Ancestors(ts[i][2])) \cap {ts[j][1], ts[j][2]} = {}

C19_Iteration ==
    (pc = "loop" /\ idx <= Len(tasks)) =>
        /\ Len(results) = Len(calls)
        /\ \A k \in DOMAIN calls : calls[k].task < idx
        /\ \A j \in DOMAIN oplog : oplog[j].task < idx
        /\ \A j \in DOMAIN LastOps : LastOps[j].task = idx
        /\ idx' = idx + 1
        /\ \/ calls' = calls /\ results' = results
           \/ /\ Len(calls') = Len(calls) + 1
              /\ LastCall.task = idx
              /\ Len(results') = Len(calls')
              /\ LastResult.status \in {Success, Failed}

\* C19: batch execution is sequential: the lookup and the conversion of task
\* i+1 begin only after task i has returned its result, Success or Failure,
\* so at most one conversion is in progress at any time.
C19_OneTaskAtATime == [][C19_Iteration]_vars

\* a finished run of two conversions: the first wrote its output before the
\* second tested its input, and each returned a result
C19_Witness ==
    /\ pc = "done"
    /\ Len(calls) = 2 /\ Len(results) = 2
    /\ calls[1].converter # "None" /\ calls[2].converter # "None"
    /\ \E i, j \in DOMAIN oplog :
          /\ j = i + 1
          /\ oplog[i].task = calls[1].task /\ oplog[i].op \in {"stat", "write"}
          /\ oplog[j].task = calls[2].task /\ oplog[j].op = "exists"

\* something that is not a directory stands at the output's parent or above
InTheWay(p) ==
    \E d \in Ancestors(tasks[p][2]) : d \in DOMAIN fs.files

\* no converter fails in mkdir for a directory that exists, whoever made it
\* and whenever: one that fails has met something that is not a directory
NoFailureForExisting ==
    \A p \in Workers :
        pc[p].at = "except" =>
            /\ InTheWay(p)
            /\ pc[p].exc.type \in {"FileExistsError", "NotADirectoryError"}

\* every converter has left mkdir: at its load step with every directory
\* above its output made, unless something that is not a directory was in
\* the way
AllProceeded ==
    \A p \in Workers :
        IF InTheWay(p) THEN pc[p].at = "except"
        ELSE pc[p].at = "load" /\ Ancestors(tasks[p][2]) \subseteq fs.dirs

\* C20: output-directory creation is idempotent and tolerates the directory
\* already existing: a converter whose output parent directory exists
\* already, or is made by another task while the converter is making it,
\* does not fail because of it, and tasks making the same parent directory
\* all proceed to their load step.
C20_MkdirToleratesExisting == [](NoFailureForExisting) /\ <>[](AllProceeded)

\* two converters with outputs in data/out/nested: the first found data/out
\* missing when it tried to make data/out/nested, and existing when it
\* went on to make it, the second having made it in between; both are at
\* their load step
C20_Witness ==
    /\ pc[1].at = "load" /\ pc[2].at = "load"
    /\ PathParent(tasks[1][2]) = "data/out/nested"
    /\ PathParent(tasks[2][2]) = "data/out/nested"
    /\ "data/out" \in pc[1].met
    /\ {"data/out", "data/out/nested"} \subseteq fs.dirs

\* C21: every result returned by infer_and_run_conversion, Success or
\* Failure, has the six report fields status, input, output, type, size and
\* time, each a text that is not empty, so the report is rendered for any
\* batch without a missing field: one row of six cells per result, in order.
C21_SixFieldsAlways ==
    /\ \A k \in DOMAIN results :
          /\ DOMAIN results[k] = {"status", "input", "output", "type", "size", "time"}
          /\ \A f \in DOMAIN results[k] : results[k][f] \in STRING /\ results[k][f] # ""
    /\ pc # "crashed"
    /\ pc = "done" =>
          /\ Len(report) = Len(results)
          /\ \A k \in DOMAIN results :
                report[k] = <<results[k].status, results[k].input, results[k].output,
                              results[k].type, results[k].size, results[k].time>>

\* the report of a finished run has a row of a Success and a row of a
\* Failure, six cells each
C21_Witness ==
    /\ pc = "done"
    /\ \E j, k \in DOMAIN report :
          /\ report[j][1] = Success /\ Len(report[j]) = 6 /\ report[j][5] = results[j].size
          /\ report[k][1] = Failed /\ Len(report[k]) = 6 /\ report[k][3] = results[k].output

\* the Numbers document at the input of the task at hand, and its rows
NumbersSource == fs.files[tasks[idx][1]]

\* the input of the task at hand is a Numbers document with at least one row
\* and nothing stands in the way of the output: no file where a directory is
\* needed, no directory at the output path
RowsToConvert ==
    /\ tasks[idx][1] \in DOMAIN fs.files
    /\ NumbersSource.kind = "numbers"
    /\ Len(NumbersSource.rows) >= 1
    /\ tasks[idx][2] \notin fs.dirs
    /\ \A d \in Ancestors(tasks[idx][2]) : d \notin DOMAIN fs.files

\* the CSV at the output has the names of the source's first row as its
\* header line and the source's rows after the first as its data rows, as
\* many and in the same order
HeaderThenRows(src, out) ==
    /\ out.kind = "csv"
    /\ Len(out.header) = Len(src.rows[1])
    /\ \A k \in DOMAIN src.rows[1] : out.header[k] = NumbersName(src.rows[1][k])
    /\ Len(out.rows) = Len(src.rows) - 1
    /\ \A r \in DOMAIN out.rows : \A k \in DOMAIN src.rows[1] :
          Lenient(out, r, k) = ValueView(src.rows[r + 1][k])

\* C22: numbers_to_csv on a source with at least one row uses the first row
\* as the CSV header and writes every subsequent row, in order, as a data
\* row; a source with exactly one row yields a header-only CSV with zero
\* data rows and a Success result.  (The system refusing an operation is the
\* one way to a Failure, and then no such CSV is claimed.)
C22_FirstRowIsHeader ==
    [][(Converting("numbers_to_csv") /\ RowsToConvert) =>
          /\ Len(results') = Len(results) + 1
          /\ \/ /\ LastResult.status = Success
                /\ tasks[idx][2] \in DOMAIN fs'.files
                /\ HeaderThenRows(NumbersSource, fs'.files[tasks[idx][2]])
                /\ Len(NumbersSource.rows) = 1 =>
                      /\ fs'.files[tasks[idx][2]].rows = <<>>
                      /\ fs'.files[tasks[idx][2]].header # <<>>
             \/ /\ LastResult.status = Failed
                /\ LastCall.err.type \in {"PermissionError", "OSError"}]_vars

\* a finished run that converted a Numbers document of one row into a CSV of
\* a header line and nothing else
C22_Witness ==
    /\ pc = "done"
    /\ Len(results) = 1
    /\ calls[1].converter = "numbers_to_csv"
    /\ results[1].status = Success
    /\ Len(fs.files[calls[1].input].rows) = 1
    /\ fs.files[calls[1].output].header = <<"a", "7.0">>
    /\ fs.files[calls[1].output].rows = <<>>

\* st_size of what stands at a path: a file's size, or that of a directory
StSize(fsys, p) == IF p \in DOMAIN fsys.files THEN fsys.files[p].size ELSE <<0, 4, 0, 0, 0>>

\* the text is the number of seconds of ms milliseconds with two decimals,
\* rounded to the nearest hundredth, and an "s"
TwoDecimalSeconds(text, ms) ==
    \E cs \in ((ms \div 10)..(ms \div 10 + 1)) :
        /\ 2 * (10 * cs - ms) \in -10..10
        /\ text = ToString(cs \div 100) \o "." \o ToString((cs \div 10) % 10)
                    \o ToString(cs % 10) \o "s"

\* C23: a Success result reports as input and output the final path
\* components of the task's two paths, as type the output path's suffix
\* uppercased with its leading dot, as size the size label of what is at
\* the output path when the result is built, and as time the elapsed seconds
\* since the converter started, with two decimals and an "s".
C23_SuccessFields ==
    [][ReturnsSuccess =>
          /\ LastResult.input = PathName(tasks[idx][1])
          /\ LastResult.output = PathName(tasks[idx][2])
          /\ \A name \in {LastResult.input, LastResult.output} :
                \A k \in DOMAIN Chars(name) : Chars(name)[k] # "/"
          /\ tasks[idx][1] = Join(PathParent(tasks[idx][1]), LastResult.input)
          /\ tasks[idx][2] = Join(PathParent(tasks[idx][2]), LastResult.output)
          /\ LastResult.type = upper(PathSuffix(tasks[idx][2]))
          /\ LastResult.type \in {".XLSX", ".CSV", ".PARQUET"}
          /\ lower(LastResult.type) = lower(PathSuffix(tasks[idx][2]))
          /\ PathExists(fs', tasks[idx][2])
          /\ LastResult.size = SizeLabel(StSize(fs', tasks[idx][2]))
          /\ TwoDecimalSeconds(LastResult.time, LastCall.ms)]_vars

\* DATA.CSV was converted to out.XLSX in 1.236 seconds into a file of 2048
\* bytes
C23_Witness ==
    \E k \in DOMAIN results :
        /\ calls[k].input = "data/DATA.CSV" /\ calls[k].output = "data/out.XLSX"
        /\ calls[k].ms = 1236
        /\ results[k] = [status |-> Success, input |-> "DATA.CSV", output |-> "out.XLSX",
                         type |-> ".XLSX", size |-> "2.0 KB", time |-> "1.24s"]

\* an iteration of the batch loop: the task at hand is skipped, with no call
\* of infer_and_run_conversion, no result, nothing printed and nothing
\* changed, exactly when its input does not exist in the filesystem as the
\* earlier tasks have left it and the input path does not contain "missing";
\* otherwise exactly one call is made, for this task
C24_Iteration ==
    (pc = "loop" /\ idx <= Len(tasks)) =>
        LET absent == tasks[idx][1] \notin Existing(fs)
            exempt == Contains(tasks[idx][1], "missing")
        IN  /\ idx' = idx + 1
            /\ (absent /\ ~exempt) <=> (calls' = calls)
            /\ calls' = calls => (results' = results /\ console' = console /\ fs' = fs)
            /\ calls' # calls =>
                  /\ Len(calls') = Len(calls) + 1
                  /\ LastCall.task = idx
                  /\ LastCall.input = tasks[idx][1]
                  /\ Len(results') = Len(results) + 1

\* task i was passed to its converter and left a file at its output path: it
\* returned a Success, or its write broke off and left a truncated file
Produced(i) ==
    \E k \in DOMAIN calls :
        /\ calls[k].task = i
        /\ \/ results[k].status = Success
           \/ calls[k].err.stage = "write" /\ calls[k].err.type = "OSError"

\* task j reads what the earlier task i writes
ReadsOutputOf(j, i) == i < j /\ tasks[j][1] = tasks[i][2]

\* C24 as stated: a task is skipped, with no result and no call, exactly
\* when its input does not exist as the loop reaches it and its path does
\* not contain "missing"; and a task whose input is an earlier task's output
\* is processed only if that earlier task produced the file.
C24_ProcessedOnlyIfProduced ==
    /\ [][C24_Iteration]_vars
    /\ [](\A i, j \in DOMAIN tasks :
             (ReadsOutputOf(j, i) /\ j \in Called) => Produced(i))

\* what an iteration does to a task that reads the output of earlier tasks:
\* it is processed when the path exists at that moment, whoever put the file
\* there, and so whenever an earlier task has left a file there; when it is
\* skipped, no earlier task has left one
C24_ChainedIteration ==
    (pc = "loop" /\ idx <= Len(tasks) /\ \E i \in DOMAIN tasks : ReadsOutputOf(idx, i)) =>
        /\ (\E i \in DOMAIN tasks : ReadsOutputOf(idx, i) /\ Produced(i)) => calls' # calls
        /\ tasks[idx][1] \in Existing(fs) => calls' # calls
        /\ (calls' # calls /\ ~Contains(tasks[idx][1], "missing")) => tasks[idx][1] \in Existing(fs)

\* C24 as amended: a task is skipped, with no result and no call of
\* infer_and_run_conversion, exactly when its input path does not exist at
\* the moment the loop reaches it and the path's string does not contain
\* "missing"; the existence test sees the filesystem as all earlier tasks
\* have left it, so a task whose input is an earlier task's output is
\* processed whenever a file is at that path at that moment: left there by
\* the earlier task, or there already before the batch (as after an earlier
\* run) even though the earlier task failed.
C24_SkippedIffAbsentNow == [][C24_Iteration]_vars /\ [][C24_ChainedIteration]_vars

\* the list of __main__ run where an earlier run has left its outputs: the
\* first task failed and wrote nothing, the third, which reads the first
\* one's output, was processed all the same; and the fourth, whose input
\* does not exist, was processed for its "missing"
C24_Witness ==
    /\ pc = "done"
    /\ tasks = MainTasks
    /\ results[1].status = Failed
    /\ ~Produced(1)
    /\ Called = {1, 2, 3, 4, 5}
    /\ tasks[4][1] \notin Existing(fs)

\* the step that has just been taken called a converter, which failed while
\* loading the input of the task at hand
FailsAtLoad ==
    /\ pc = "loop" /\ idx <= Len(tasks)
    /\ Len(calls') = Len(calls) + 1
    /\ LastCall.converter # "None"
    /\ LastCall.err.stage = "load"

\* C25: for a registered pair, a converter call that fails at the input-load
\* step (for instance because the input file is missing) has already created
\* the output path's missing parent directories: after such a Failure the
\* output's parent directory exists, with every directory above it, although
\* the call has written no file: where the parent was missing, no output
\* file exists, and any file that was there is as it was.
C25_ParentMadeBeforeLoadFails ==
    [][FailsAtLoad =>
          /\ LastResult.status = Failed
          /\ Ancestors(tasks[idx][2]) \subseteq fs'.dirs
          /\ fs.dirs \subseteq fs'.dirs
          /\ fs'.dirs \ fs.dirs = Ancestors(tasks[idx][2]) \ fs.dirs
          /\ fs'.files = fs.files
          /\ PathParent(tasks[idx][2]) \notin fs.dirs => tasks[idx][2] \notin Existing(fs')
          /\ \E i, j \in DOMAIN LastOps :
                /\ i < j
                /\ LastOps[i].op = "mkdir" /\ LastOps[i].path = PathParent(tasks[idx][2])
                /\ LastOps[j].op = "read" /\ LastOps[j].path = tasks[idx][1]
                /\ \A m \in DOMAIN LastOps : m > j => LastOps[m].op \notin {"write", "touch"}]_vars

\* the list of __main__ where data/converted did not exist: the system
\* refused the directory to the first two tasks, the third was skipped, and
\* numbers_to_csv, given the missing Numbers document, made data/converted
\* and then failed at the load, leaving the directory and no fail_test.csv
C25_Witness ==
    /\ pc = "done"
    /\ tasks = MainTasks
    /\ Called = {1, 2, 4, 5}
    /\ calls[1].err.stage = "mkdir" /\ calls[2].err.stage = "mkdir"
    /\ calls[3].converter = "numbers_to_csv"
    /\ calls[3].err.stage = "load"
    /\ results[3].status = Failed
    /\ "data/converted" \in fs.dirs
    /\ "data/converted/fail_test.csv" \notin Existing(fs)
    /\ \E j \in DOMAIN oplog : oplog[j] = [task |-> 4, op |-> "mkdir", path |-> "data/converted"]

\* the step that has just been taken passed the task at hand to a converter
Dispatched ==
    /\ pc = "loop" /\ idx <= Len(tasks)
    /\ Len(calls') = Len(calls) + 1
    /\ LastCall.converter # "None"

\* what stands at a path is the same in both filesystems: the same file
\* with the same content, a directory in both, or nothing in both
SameAt(f, g, p) ==
    /\ p \in DOMAIN f.files <=> p \in DOMAIN g.files
    /\ p \in DOMAIN f.files => f.files[p] = g.files[p]
    /\ p \in f.dirs <=> p \in g.dirs

\* C26: no conversion ever writes to its own input: in every registered
\* pair the input extension differs from the output extension, so for every
\* task dispatched to a converter the output path differs from the input
\* path, and the input file's content is unchanged after the call, whether
\* it ends in Success or Failure; a task whose two paths are the same is
\* dispatched to no converter.
C26_InputNeverWritten ==
    /\ [](\A pair \in DOMAIN mapping : pair[1] # pair[2])
    /\ [][Dispatched =>
            /\ lower(PathSuffix(tasks[idx][1])) # lower(PathSuffix(tasks[idx][2]))
            /\ tasks[idx][1] # tasks[idx][2]
            /\ SameAt(fs, fs', tasks[idx][1])
            /\ \A j \in DOMAIN LastOps :
                  LastOps[j].path = tasks[idx][1] => LastOps[j].op \in {"exists", "read"}
            /\ LastResult.status \in {Success, Failed}]_vars
    /\ [][(pc = "loop" /\ idx <= Len(tasks) /\ tasks[idx][1] = tasks[idx][2]) =>
            (fs' = fs /\ (calls' # calls => LastCall.converter = "None"))]_vars

\* sample.csv -> sample.csv found no converter, then sample.csv was
\* converted to .xlsx with Success, and sample.csv is what it was
C26_Witness ==
    /\ pc = "done"
    /\ tasks = OntoItselfTasks
    /\ calls[1].input = calls[1].output
    /\ calls[1].converter = "None"
    /\ calls[2].converter = "csv_to_xlsx"
    /\ results[2].status = Success
    /\ fs.files[sample_csv] = SampleCsv
    /\ fs.files[calls[2].output].kind = "xlsx"

\* the task at hand is the task before it over again, and that one was
\* converted with Success in the step before
RepeatsSuccess ==
    /\ pc = "loop" /\ 1 < idx /\ idx <= Len(tasks)
    /\ tasks[idx] = tasks[idx - 1]
    /\ calls # <<>> /\ calls[Len(calls)].task = idx - 1
    /\ Len(results) = Len(calls)
    /\ results[Len(results)].status = Success

\* the table a file holds, whatever its size in bytes
TableOf(f) == [kind |-> f.kind, header |-> f.header, dtypes |-> f.dtypes, rows |-> f.rows]

\* the second of two runs of a task in a row: it returns Success again and
\* leaves the directories, the set of files, every other file and the table
\* at the output as the first run left them, unless the system refuses the
\* read or the write this time
C27_SecondRun ==
    RepeatsSuccess =>
        /\ Len(results') = Len(results) + 1
        /\ \/ /\ LastResult.status = Success
              /\ fs'.dirs = fs.dirs
              /\ DOMAIN fs'.files = DOMAIN fs.files
              /\ \A p \in DOMAIN fs.files : TableOf(fs'.files[p]) = TableOf(fs.files[p])
              /\ \A p \in DOMAIN fs.files : p # tasks[idx][2] => fs'.files[p] = fs.files[p]
              /\ LastResult.input = results[Len(results)].input
              /\ LastResult.output = results[Len(results)].output
              /\ LastResult.type = results[Len(results)].type
           \/ /\ LastResult.status = Failed
              /\ LastCall.err.stage \in {"load", "write"}
              /\ LastCall.err.type \in {"PermissionError", "OSError"}

\* the filesystem without the file at p
Without(fsys, p) == [fsys EXCEPT !.files = [q \in DOMAIN @ \ {p} |-> @[q]]]

\* the task at hand goes to a converter and a file stands at its output path
OntoExistingFile ==
    /\ pc = "loop" /\ idx <= Len(tasks)
    /\ SelectConverter(tasks[idx][1], tasks[idx][2]) # "None"
    /\ ~Skipped(fs, tasks[idx][1])
    /\ tasks[idx][2] \in DOMAIN fs.files

\* whatever the environment decides, a conversion that succeeds onto a free
\* output path succeeds onto the file that is there, and leaves the same
\* file (a Numbers source without rows aside, whose output is only touched)
NotFailedByExistingOutput ==
    OntoExistingFile =>
        \A env \in Envs :
            LET free  == LoopBody(Without(fs, tasks[idx][2]), tasks[idx], env)
                taken == LoopBody(fs, tasks[idx], env)
            IN  free.ret.status = Success =>
                    /\ taken.ret.status = Success
                    /\ ~(fs.files[tasks[idx][1]].kind = "numbers"
                          /\ fs.files[tasks[idx][1]].rows = <<>>) =>
                          taken.fs.files[tasks[idx][2]] = free.fs.files[tasks[idx][2]]

\* C27: running a task is idempotent on the filesystem: executing the same
\* successful task twice in a row, with the input unchanged, overwrites the
\* output and leaves the same output table, the same set of files and
\* directories, and a Success status both times; a pre-existing file at the
\* output path never makes a conversion fail.
C27_IdempotentRerun == [][C27_SecondRun]_vars /\ [](NotFailedByExistingOutput)

\* csv_to_parquet has converted sample.csv twice in a row, with Success both
\* times, the second run writing over the output of the first
C27_Witness ==
    /\ pc = "done"
    /\ Len(tasks) = 2 /\ tasks[1] = tasks[2]
    /\ Len(results) = 2
    /\ calls[1].converter = "csv_to_parquet" /\ calls[2].converter = "csv_to_parquet"
    /\ results[1].status = Success /\ results[2].status = Success
    /\ \E i, j \in DOMAIN oplog :
          /\ oplog[i] = [task |-> 1, op |-> "write", path |-> tasks[1][2]]
          /\ oplog[j] = [task |-> 2, op |-> "write", path |-> tasks[1][2]]
    /\ fs.files[tasks[1][2]].header = <<"a", "b">>

\* the functions a tool has in a registry, none when it is not registered
FunctionsOf(registry, tool) ==
    IF tool \in DOMAIN registry THEN registry[tool].functions ELSE <<>>

\* the calls of add_function so far that name the tool
CallsNaming(tool) == {k \in DOMAIN calls : calls[k].tool_name = tool}

\* a call of add_function: one entry more at the end of the named tool's
\* list, its entry created with the given category when it was not
\* registered, its category and earlier functions kept when it was, and
\* every other tool's entry as it was
C28_Call ==
    (pc = "registry" /\ Len(calls') = Len(calls) + 1) =>
        LET c == calls'[Len(calls')]
            new == [name |-> c.function_name, description |-> c.description]
        IN  /\ DOMAIN label' = DOMAIN label \cup {c.tool_name}
            /\ \A t \in DOMAIN label : t # c.tool_name => label'[t] = label[t]
            /\ Len(label'[c.tool_name].functions) = Len(FunctionsOf(label, c.tool_name)) + 1
            /\ label'[c.tool_name].functions[Len(label'[c.tool_name].functions)] = new
            /\ \A k \in DOMAIN FunctionsOf(label, c.tool_name) :
                  label'[c.tool_name].functions[k] = label[c.tool_name].functions[k]
            /\ label'[c.tool_name].category =
                  IF c.tool_name \in DOMAIN label THEN label[c.tool_name].category ELSE c.category
            /\ DOMAIN label'[c.tool_name] = {"category", "functions"}

\* after any sequence of calls each tool has as many functions as it had at
\* the start and one more for each call that named it, and that is the
\* count list_tools prints for it
C28_Counts ==
    pc = "registry" =>
        /\ \A t \in DOMAIN label \cup DOMAIN InitialRegistry :
              /\ t \in DOMAIN label
              /\ Len(label[t].functions) =
                    Len(FunctionsOf(InitialRegistry, t)) + Cardinality(CallsNaming(t))
        /\ \A k \in DOMAIN calls : calls[k].tool_name \in DOMAIN label
        /\ \A t \in DOMAIN label :
              \A line \in {list_tools(label)[k] : k \in DOMAIN list_tools(label)} :
                  line.tool = t => line.func_count = Len(label[t].functions)
        /\ Len(list_tools(label)) = Cardinality(DOMAIN label)

\* C28: add_function(tool, category, name, description) appends exactly one
\* {name, description} entry at the end of the tool's function list,
\* creating the tool's entry with the given category and an empty list first
\* when the tool is not registered; it leaves every other tool's entry
\* unchanged, and when the tool is already registered it leaves that tool's
\* category and earlier functions unchanged, so after any sequence of calls
\* each tool's function count grows by the number of calls naming it.
C28_AddFunctionAppendsOne == [][C28_Call]_vars /\ [](C28_Counts)

\* my_tool was added with one category and then named again with another,
\* and eda_starter was named once: my_tool has two functions and its first
\* category, eda_starter has nine and is still "EDA Util", and list_tools
\* has printed these counts
C28_Witness ==
    /\ pc = "registry"
    /\ Len(calls) = 3
    /\ calls[1].tool_name = "my_tool" /\ calls[1].category = "Modeling"
    /\ calls[2].tool_name = "my_tool" /\ calls[2].category = "EDA Util"
    /\ calls[3].tool_name = "eda_starter" /\ calls[3].category = "Modeling"
    /\ label["my_tool"].category = "Modeling"
    /\ Len(label["my_tool"].functions) = 2
    /\ label["eda_starter"].category = "EDA Util"
    /\ Len(label["eda_starter"].functions) = 9
    /\ label["check_eda_env"] = InitialRegistry["check_eda_env"]
    /\ \E j, k \in DOMAIN report :
          /\ report[j] = [tool |-> "my_tool", func_count |-> 2]
          /\ report[k] = [tool |-> "eda_starter", func_count |-> 9]

\* the directories above the working directory, itself not among them
StrictlyAbove(p) == UpFrom(p) \ {p}

\* r is the nearest of the directories in among that contain pyproject.toml
NearestWithPyproject(r, among) ==
    /\ r \in among
    /\ HasPyproject(fs, r)
    /\ \A p \in among : HasPyproject(fs, p) => Len(p) <= Len(r)

RunsRenameFiles == pc = "rename" /\ Len(calls') = Len(calls) + 1

\* what the run taking place renamed
RenamedNow == calls'[Len(calls')].renamed

\* the name matches old_stem.* 
MatchesStem(name, old_stem) == Len(name) >= 2 /\ name[1] = old_stem /\ name[2] = "."

\* the file that was at <<dir, from>> is at <<dir, to>> and no longer where it was
MovedNow(dir, from, to) ==
    /\ [dir |-> dir, from |-> from, to |-> to] \in RenamedNow
    /\ <<dir, from>> \notin DOMAIN fs'.files
    /\ <<dir, to>> \in DOMAIN fs'.files
    /\ fs'.files[<<dir, to>>] = fs.files[<<dir, from>>]

\* the name a file of a stem entry is to get: the new stem in front, as
\* many parts as before, the extension at the end as it was, and every part
\* that is not the old stem as it was
KeepsExtension(name, to, task) ==
    /\ Len(to) = Len(name)
    /\ to[1] = task.new_stem
    /\ to[Len(to)] = name[Len(name)]
    /\ \A k \in 2..Len(name) : name[k] # task.old_stem => to[k] = name[k]

\* the files of a folder
FilesIn(fsys, dir) == {p \in DOMAIN fsys.files : p[1] = dir}

====
